---- MODULE Spec2Model ----
(***************************************************************************)
(* Model of the mail-migration job engine: the start route, runJob and     *)
(* processAccount of server/worker.ts, the prepared statements of          *)
(* server/db.ts (the Progress Store), the in-memory credential map of      *)
(* server/security.ts and the IMAP client wrapper of server/imap/client.ts *)
(* seen through its contract.  One job is modelled.  Every await whose     *)
(* outcome is decided outside the engine (connect, list, count, fetch,     *)
(* append, ensure) is a step with one branch per outcome.                  *)
(***************************************************************************)
EXTENDS Integers, Sequences, FiniteSets, TLC

(* ------------------------------ bounds --------------------------------- *)

\* accounts (rows of the upload) of the job
MaxAccounts == 2
\* highest message identifier (UID) a source folder may hold
MaxUid == 2
\* largest per-account batch size tried
MaxBatch == 2
\* accepted start requests
MaxRuns == 2
\* executions of processAccount, raised exceptions and deliveries over the
\* job's life
MaxEvents == 4
\* raised exceptions and per-message failures over the job's life
MaxFaults == 2
\* messages delivered to a source folder while the job runs
MaxDeliver == 1
\* process terminations
MaxRestarts == 1
\* messages of the single folder in the batch scenario
MaxBatchMsgs == 5
\* largest batch size of the batch scenario
MaxBatchSizeB == 3

Rows == 0 .. (MaxAccounts - 1)
Paths == {"INBOX", "Sent", "[Gmail]/All Mail"}
\* an absent row of a table
NoRow == [exists |-> FALSE]

VARIABLES
    mode,           \* jobs.mode, fixed at job creation
    job,            \* the jobs row
    accounts,       \* accounts rows, by rowIndex
    folders,        \* folders rows, by rowIndex and folderPath
    passwordStore,  \* rows whose credentials are in the in-memory map
    mailboxList,    \* what the source server lists (ordered)
    srcMail,        \* identifiers present in each source folder
    pc,             \* where the worker is suspended
    drv,            \* locals of runJob
    acc,            \* locals of processAccount
    cp,             \* locals of the batch copy loop
    hist,           \* observations the properties are stated over
    upload,         \* the create route applied to two uploaded rows
    bus,            \* the EventBus: its listener map and what callbacks got
    flagRun,        \* the flag filter of the copy loop applied to one message
    mapRun,         \* mapFolderPath applied to one source path and one listing
    sess            \* the sessions of one execution of processAccount

\* the parts of the program that are studied on their own
sideVars == <<upload, bus, flagRun, mapRun, sess>>

\* the job engine
engineVars == <<mode, job, accounts, folders, passwordStore, mailboxList, srcMail,
                pc, drv, acc, cp, hist>>

vars == <<mode, job, accounts, folders, passwordStore, mailboxList, srcMail,
          pc, drv, acc, cp, hist, upload, bus, flagRun, mapRun, sess>>

(* --------------------------- Progress Store ---------------------------- *)

\* UPDATE jobs SET status = ? WHERE id = ?
UpdateJobStatus(j, s) == [j EXCEPT !.status = s]

\* a snapshot write that leaves currentRowIndex as it is
UpdateJobProgressCountersOnly(j, t, m, e, c) ==
    [j EXCEPT !.totalMessages = t, !.movedMessages = m, !.errorCount = e]

\* UPDATE jobs SET totalMessages, movedMessages, errorCount, currentRowIndex
UpdateJobProgress(j, t, m, e, c) ==
    [j EXCEPT !.totalMessages = t, !.movedMessages = m,
              !.errorCount = e, !.currentRowIndex = c]

\* UPDATE accounts SET status = ? WHERE jobId = ? AND rowIndex = ?
UpdateAccountStatus(a, r, s) ==
    IF a[r] = NoRow THEN a ELSE [a EXCEPT ![r].status = s]

\* UPDATE accounts SET totalMessages = ?, movedMessages = ?, lastError = ?
UpdateAccountProgress(a, r, t, m, le) ==
    IF a[r] = NoRow THEN a
    ELSE [a EXCEPT ![r].totalMessages = t, ![r].movedMessages = m,
                   ![r].lastError = le]

\* SELECT * FROM accounts WHERE jobId = ? ORDER BY rowIndex
\* (rows are created with rowIndex 0, 1, ... so the i-th row has rowIndex i)
GetAccountsByJob(a) == {r \in Rows : a[r] # NoRow}

\* INSERT OR REPLACE INTO folders (...) VALUES (?, ?, ?, ?, ?, ?, 'pending')
CreateFolder(f, r, p, t, m, u) ==
    [f EXCEPT ![r][p] = [totalMessages |-> t, movedMessages |-> m,
                         lastProcessedUid |-> u, status |-> "pending"]]

\* UPDATE folders SET movedMessages = ?, lastProcessedUid = ?, status = ?
\* WHERE jobId = ? AND rowIndex = ? AND folderPath = ?   (no row: no effect)
UpdateFolderProgress(f, r, p, m, u, s) ==
    IF f[r][p] = NoRow THEN f
    ELSE [f EXCEPT ![r][p].movedMessages = m,
                   ![r][p].lastProcessedUid = u,
                   ![r][p].status = s]

\* SELECT * FROM folders WHERE jobId = ? AND rowIndex = ?
GetFoldersByAccount(f, r) == {p \in Paths : f[r][p] # NoRow}

RECURSIVE SumOver(_, _)
SumOver(S, g) ==
    IF S = {} THEN 0
    ELSE LET x == CHOOSE y \in S : TRUE
         IN  g[x] + SumOver(S \ {x}, g)

\* a reduce that counts the folder rows that have moved anything
TotalMovedFolders(f, r) ==
    Cardinality({p \in GetFoldersByAccount(f, r) : f[r][p].movedMessages > 0})

\* allFolders.reduce((sum, f) => sum + (f.movedMessages || 0), 0)
TotalMoved(f, r) ==
    SumOver(GetFoldersByAccount(f, r),
            [p \in Paths |-> IF f[r][p] = NoRow THEN 0 ELSE f[r][p].movedMessages])

(* ------------------------- credentials, transport ---------------------- *)

\* a credential lookup that never comes back empty
HasPasswordAlways(store, r) == TRUE

\* getPassword(jobId, rowIndex): undefined when the map has no entry
HasPassword(store, r) == r \in store

\* folderPath.startsWith('[Gmail]') || folderPath.startsWith('[Google]')
IsSkippedMailbox(p) == p \in {"[Gmail]/All Mail"}

\* mailbox.exists
GetMessageCount(r, p) == Cardinality(srcMail[r][p])

RECURSIVE Ascending(_)
Ascending(S) ==
    IF S = {} THEN <<>>
    ELSE LET lo == CHOOSE x \in S : \A y \in S : x <= y
         IN  <<lo>> \o Ascending(S \ {lo})

Take(s, n) == IF Len(s) <= n THEN s ELSE SubSeq(s, 1, n)

\* fetch({uid: `${fromUid}:*`}) cut after batchSize messages, in UID order
GetMessages(r, p, fromUid, batchSize) ==
    Take(Ascending({u \in srcMail[r][p] : u >= fromUid}), batchSize)

(* ------------------------------ initial state -------------------------- *)

\* locals of runJob: let totalMessages = 0, movedMessages = 0, errorCount = 0
DrvIdle == [i |-> 0, totalMessages |-> 0, movedMessages |-> 0, errorCount |-> 0]

\* locals of processAccount: the folder index into the listing, the running
\* total, and the two sessions ("null": no client object, "closed": a client
\* object without a connection, "open": connected)
AccIdle == [fidx |-> 0, accountTotalMessages |-> 0,
            oldClient |-> "null", newClient |-> "null"]

\* locals of the copy loop
CpIdle == [messageCount |-> 0, processed |-> 0, currentUid |-> 0, batch |-> <<>>]

NoFolders == [r \in Rows |-> [p \in Paths |-> NoRow]]

\* What the current run has done.  folderErr: "dstConnect" where the
\* destination connect raised, "failed" where another call of the folder's
\* try block raised.  errLogs: the error logs published about the failure
\* of an account.  ops: the kinds of transport calls made after discovery
\* ("fetch" from the source, "dst" for every call on the destination).
HistInit ==
    [runs |-> 0, faults |-> 0, delivered |-> 0, restarts |-> 0, active |-> 0,
     result |-> "none", driverFault |-> FALSE,
     acctErr |-> [r \in Rows |-> "none"],
     folderErr |-> [r \in Rows |-> [p \in Paths |-> "none"]],
     startFolders |-> NoFolders,
     disc |-> [r \in Rows |-> [p \in Paths |-> -1]],
     fetchCount |-> 0, firstFetchFrom |-> 0, lastBatch |-> 0,
     tried |-> {}, appended |-> 0,
     errLogs |-> [r \in Rows |-> 0],
     ops |-> {},
     step |-> <<>>]

\* createJob: status 'pending', counters at their column defaults
JobCreated ==
    [status |-> "pending", totalMessages |-> 0, movedMessages |-> 0,
     errorCount |-> 0, currentRowIndex |-> 0]

\* createAccount: status 'pending', counters at their column defaults
AccountCreated(b) ==
    [status |-> "pending", totalMessages |-> 0, movedMessages |-> 0,
     lastError |-> "null", batch_size |-> b]

\* nothing uploaded, no listener, no message being filtered, no path
\* being mapped
UploadIdle == [phase |-> "idle"]
BusIdle == [phase |-> "idle"]
FlagIdle == [phase |-> "idle"]
MapIdle == [phase |-> "idle"]
SessionIdle == [phase |-> "idle"]

\* The state after the create route: the job and its accounts are stored,
\* the credentials of every row are in the map, no folder row exists.
InitWith(n, b, list, mail) ==
    /\ upload = UploadIdle
    /\ bus = BusIdle
    /\ flagRun = FlagIdle
    /\ mapRun = MapIdle
    /\ sess = SessionIdle
    /\ job = JobCreated
    /\ accounts = [r \in Rows |-> IF r < n THEN AccountCreated(b) ELSE NoRow]
    /\ folders = NoFolders
    /\ passwordStore = {r \in Rows : r < n}
    /\ mailboxList = list
    /\ srcMail = mail
    /\ pc = "idle"
    /\ drv = DrvIdle
    /\ acc = AccIdle
    /\ cp = CpIdle
    /\ hist = HistInit

Init ==
    /\ mode \in {"dryrun", "migrate"}
    /\ \E n \in 1 .. MaxAccounts, b \in 1 .. MaxBatch,
          inbox \in SUBSET (1 .. MaxUid), sent \in {{}, 1 .. (MaxUid - 1)} :
          InitWith(n, b, <<"INBOX", "[Gmail]/All Mail", "Sent">>,
                   [r \in Rows |-> [p \in Paths |->
                       IF p = "INBOX" THEN inbox
                       ELSE IF p = "Sent" THEN sent ELSE {}]])

\* One account, one folder holding the messages 1 .. N, batch size B.
InitBatch ==
    /\ mode = "migrate"
    /\ \E n \in 0 .. MaxBatchMsgs, b \in 1 .. MaxBatchSizeB :
          InitWith(1, b, <<"INBOX">>,
                   [r \in Rows |-> [p \in Paths |->
                       IF r = 0 /\ p = "INBOX" THEN 1 .. n ELSE {}]])

(* ------------------------------ derived names --------------------------- *)

\* the row being processed (const account = accounts[i]; rowIndex)
CurRow == drv.i
\* the folder being processed (mailbox.path)
CurPath == mailboxList[acc.fidx]
NumAccounts == Cardinality(GetAccountsByJob(accounts))
\* what has happened to the job so far: executions of processAccount,
\* exceptions and per-message failures, deliveries, terminations
Events(h) == h.runs * NumAccounts + h.faults + h.delivered + h.restarts
\* k more exceptions fit the bounds
CanFailIn(h, k) == h.faults + k <= MaxFaults /\ Events(h) + k <= MaxEvents
CanFail(k) == CanFailIn(hist, k)

(* ------------------------- the catch blocks ---------------------------- *)

\* a driver that forgets to count a failed account
NextErrorCountStuck(e) == e

\* a driver that counts failed accounts downwards
NextErrorCountDown(e) == e - 1

\* errorCount++ in the inner catch of runJob
NextErrorCount(e) == e + 1

\* Leave the current folder and go on with the next mailbox of the listing.
NextFolder(a) ==
    /\ acc' = [a EXCEPT !.fidx = @ + 1]
    /\ cp' = CpIdle
    /\ pc' = "folder"

\* publishLog(jobId, 'error', ...) calls on the way of an exception out of
\* processAccount: one where a missing credential, a connect or a listing
\* failure is detected, one in the account catch and one in the inner catch
\* of runJob
ErrorLogsOnAccountFailure(cause) ==
    IF cause \in {"password", "connect", "list"} THEN 3 ELSE 2

\* if (client) { try { await client.disconnect() } catch { console.error } }
\* in the finally block: a client object is left without a connection
Disconnected(client) == IF client = "null" THEN "null" ELSE "closed"

\* a finally block that forgets the destination session
FinallyOldOnly(a) ==
    [AccIdle EXCEPT !.oldClient = Disconnected(a.oldClient),
                    !.newClient = a.newClient]

\* processAccount's finally: what is left of the two sessions when it is
\* through
Finally(a) ==
    [AccIdle EXCEPT !.oldClient = Disconnected(a.oldClient),
                    !.newClient = Disconnected(a.newClient)]

\* processAccount's catch (status 'failed', progress 0/0/err.message, throw),
\* its finally (both sessions are disconnected) and runJob's inner catch
\* (errorCount++, next account).  a: the locals of processAccount when the
\* exception is raised.
AccountFails(accts, a, h, cause) ==
    /\ accounts' = UpdateAccountProgress(
                       UpdateAccountStatus(accts, CurRow, "failed"), CurRow, 0, 0, cause)
    /\ drv' = [drv EXCEPT !.errorCount = NextErrorCount(@), !.i = @ + 1]
    /\ acc' = Finally(a)
    /\ cp' = CpIdle
    /\ pc' = "account"
    /\ hist' = [h EXCEPT !.acctErr[CurRow] = cause,
                         !.errLogs[CurRow] = @ + ErrorLogsOnAccountFailure(cause)]

\* The per-folder catch: updateFolderProgress(0, 0, 'failed'), next folder.
\* plan > 0: that write raises and the exception leaves the folder loop.
FolderFails(f, accts, a, h, plan) ==
    IF plan = 0
    THEN /\ folders' = UpdateFolderProgress(f, CurRow, CurPath, 0, 0, "failed")
         /\ accounts' = accts
         /\ NextFolder(a)
         /\ drv' = drv
         /\ hist' = h
    ELSE /\ folders' = f
         /\ AccountFails(accts, a, [h EXCEPT !.faults = @ + 1], "store")

\* runJob's outer catch: updateJobStatus('failed'), throw.  plan > 0: that
\* write raises as well and the status stays as it was.
DriverFails(j, h, plan) ==
    /\ job' = IF plan = 0 THEN UpdateJobStatus(j, "failed") ELSE j
    /\ pc' = "idle"
    /\ drv' = DrvIdle
    /\ acc' = AccIdle
    /\ cp' = CpIdle
    /\ hist' = [h EXCEPT !.result = "raised", !.driverFault = TRUE,
                         !.active = @ - 1,
                         !.faults = @ + (IF plan = 0 THEN 0 ELSE 1)]

(* ------------------------- start route, runJob ------------------------- *)

(* ------------------- store writes and status events -------------------- *)

\* The keys of the store rows and of the status events about them.
JobKey == [kind |-> "job", r |-> -1, p |-> "-"]
AccountKey(r) == [kind |-> "account", r |-> r, p |-> "-"]
FolderKey(r, p) == [kind |-> "folder", r |-> r, p |-> p]

\* A store write and a published status event, with the public fields they
\* carry; "-" and -1 stand for a field the statement or payload leaves out.
Write(key, status, total, moved) ==
    [op |-> "write", key |-> key, status |-> status, total |-> total,
     moved |-> moved]
Publish(key, status, total, moved) ==
    [op |-> "publish", key |-> key, status |-> status, total |-> total,
     moved |-> moved]

\* updateAccountStatus('running'), then publishAccountStatus
SrcListTrace(r) ==
    << Write(AccountKey(r), "running", -1, -1),
       Publish(AccountKey(r), "running", 0, 0) >>

\* createFolder, publishFolderStatus, updateAccountProgress,
\* publishAccountStatus
DiscoverTrace(r, p, messageCount, total) ==
    << Write(FolderKey(r, p), "pending", messageCount, 0),
       Publish(FolderKey(r, p), "-", messageCount, 0),
       Write(AccountKey(r), "-", total, 0),
       Publish(AccountKey(r), "running", total, 0) >>

\* a copy step that would announce the progress before storing it
MsgTracePublishFirst(r, p, status, messageCount, folderMoved, hasAccount, total, totalMoved) ==
    << Publish(FolderKey(r, p), "-", messageCount, folderMoved),
       Write(FolderKey(r, p), status, -1, folderMoved) >>
    \o (IF hasAccount
        THEN << Publish(AccountKey(r), "running", total, totalMoved),
                Write(AccountKey(r), "-", total, totalMoved) >>
        ELSE << >>)

\* after an append: updateFolderProgress, publishFolderStatus and, when the
\* account row is found, updateAccountProgress, publishAccountStatus
MsgTrace(r, p, status, messageCount, folderMoved, hasAccount, total, totalMoved) ==
    << Write(FolderKey(r, p), status, -1, folderMoved),
       Publish(FolderKey(r, p), "-", messageCount, folderMoved) >>
    \o (IF hasAccount
        THEN << Write(AccountKey(r), "-", total, totalMoved),
                Publish(AccountKey(r), "running", total, totalMoved) >>
        ELSE << >>)

\* updateAccountProgress, updateAccountStatus('done'), publishAccountStatus
FinishAccountTrace(r, total, moved) ==
    << Write(AccountKey(r), "-", total, moved),
       Write(AccountKey(r), "done", -1, -1),
       Publish(AccountKey(r), "done", total, moved) >>

\* updateJobStatus('done'), updateJobProgress, publishJobStatus
FinishJobTrace(total, moved) ==
    << Write(JobKey, "done", -1, -1),
       Write(JobKey, "-", total, moved),
       Publish(JobKey, "done", total, moved) >>

\* a start route without its guard
StartRefusedNever(j) == FALSE

\* the start route's guard: only a running job is refused
StartRefused(j) == j.status = "running"

\* POST /api/jobs/[jobId]/start, and runJob up to its first await.
StartRequest ==
    /\ UNCHANGED <<sideVars, mode, accounts, folders, passwordStore, mailboxList, srcMail>>
    /\ \/ \* 400 'Job is already running': nothing is started
          /\ StartRefused(job)
          /\ UNCHANGED <<job, pc, drv, acc, cp, hist>>
       \/ /\ ~StartRefused(job)
          /\ hist.runs < MaxRuns
          /\ Events(hist) + NumAccounts <= MaxEvents
          /\ LET h == [hist EXCEPT !.runs = @ + 1,
                                   !.result = "none", !.driverFault = FALSE,
                                   !.acctErr = [r \in Rows |-> "none"],
                                   !.folderErr =
                                       [r \in Rows |-> [p \in Paths |-> "none"]],
                                   !.startFolders = folders,
                                   !.disc = [r \in Rows |-> [p \in Paths |-> -1]],
                                   !.fetchCount = 0, !.firstFetchFrom = 0,
                                   !.lastBatch = 0, !.tried = {}, !.appended = 0,
                                   !.errLogs = [r \in Rows |-> 0],
                                   !.step = <<>>]
             IN \/ /\ job' = UpdateJobStatus(job, "running")
                   /\ pc' = "account"
                   /\ drv' = DrvIdle
                   /\ acc' = AccIdle
                   /\ cp' = CpIdle
                   /\ hist' = [h EXCEPT !.active = @ + 1]
                \/ \* updateJobStatus('running') raises, outside the try
                   /\ CanFailIn(h, 1)
                   /\ hist' = [h EXCEPT !.faults = @ + 1, !.result = "raised",
                                        !.driverFault = TRUE]
                   /\ UNCHANGED <<job, pc, drv, acc, cp>>
                \/ \* getAccountsByJob raises, outside the try
                   /\ CanFailIn(h, 1)
                   /\ job' = UpdateJobStatus(job, "running")
                   /\ hist' = [h EXCEPT !.faults = @ + 1, !.result = "raised",
                                        !.driverFault = TRUE]
                   /\ UNCHANGED <<pc, drv, acc, cp>>

\* Top of the account loop: persist the snapshot, enter processAccount and
\* run it up to oldClient.connect().
BeginAccount ==
    /\ pc = "account"
    /\ drv.i < NumAccounts
    /\ UNCHANGED <<sideVars, mode, folders, passwordStore, mailboxList, srcMail>>
    /\ \/ \* updateJobProgress raises
          /\ \E plan \in 0 .. 1 :
                /\ CanFail(1 + plan)
                /\ DriverFails(job, [hist EXCEPT !.faults = @ + 1], plan)
          /\ UNCHANGED accounts
       \/ /\ job' = UpdateJobProgress(job, drv.totalMessages, drv.movedMessages,
                                      drv.errorCount, drv.i)
          /\ IF HasPassword(passwordStore, CurRow)
             THEN /\ pc' = "srcConnect"
                  /\ acc' = [AccIdle EXCEPT !.oldClient = "closed"]
                  /\ UNCHANGED <<accounts, drv, cp, hist>>
             ELSE \* throw new Error(`Password not found for row ...`)
                  AccountFails(accounts, AccIdle, hist, "password")

\* a driver that reports the job failed when an account failed
JobStatusByErrors == IF drv.errorCount > 0 THEN "failed" ELSE "done"

\* after the loop: updateJobStatus.run('done', jobId)
JobStatusAfterLoop == "done"

\* The account loop is over.
FinishJob ==
    /\ pc = "account"
    /\ drv.i >= NumAccounts
    /\ UNCHANGED <<sideVars, mode, accounts, folders, passwordStore, mailboxList, srcMail>>
    /\ \/ /\ job' = UpdateJobProgress(UpdateJobStatus(job, JobStatusAfterLoop),
                                      drv.totalMessages, drv.movedMessages,
                                      drv.errorCount, NumAccounts)
          /\ pc' = "idle"
          /\ drv' = DrvIdle
          /\ acc' = AccIdle
          /\ cp' = CpIdle
          /\ hist' = [hist EXCEPT !.result = "ok", !.active = @ - 1,
                                  !.step = FinishJobTrace(drv.totalMessages,
                                                          drv.movedMessages)]
       \/ \* updateJobStatus('done') raises
          \E plan \in 0 .. 1 :
             /\ CanFail(1 + plan)
             /\ DriverFails(job, [hist EXCEPT !.faults = @ + 1], plan)
       \/ \* updateJobProgress raises after status 'done' was stored
          \E plan \in 0 .. 1 :
             /\ CanFail(1 + plan)
             /\ DriverFails(UpdateJobStatus(job, JobStatusAfterLoop),
                            [hist EXCEPT !.faults = @ + 1], plan)

(* ----------------------------- processAccount -------------------------- *)

\* await oldClient.connect()
SrcConnect ==
    /\ pc = "srcConnect"
    /\ UNCHANGED <<sideVars, mode, job, folders, passwordStore, mailboxList, srcMail>>
    /\ \/ /\ pc' = "srcList"
          /\ acc' = [acc EXCEPT !.oldClient = "open"]
          /\ UNCHANGED <<accounts, drv, cp, hist>>
       \/ \* connect raises: logged and thrown again
          /\ CanFail(1)
          /\ AccountFails(accounts, acc, [hist EXCEPT !.faults = @ + 1], "connect")

\* await oldClient.listMailboxes(), then status 'running'
SrcList ==
    /\ pc = "srcList"
    /\ UNCHANGED <<sideVars, mode, job, folders, passwordStore, mailboxList, srcMail>>
    /\ \/ /\ accounts' = UpdateAccountStatus(accounts, CurRow, "running")
          /\ pc' = "folder"
          /\ acc' = [acc EXCEPT !.fidx = 1, !.accountTotalMessages = 0]
          /\ hist' = [hist EXCEPT !.step = SrcListTrace(CurRow)]
          /\ UNCHANGED <<drv, cp>>
       \/ \* listMailboxes raises: logged and thrown again
          /\ CanFail(1)
          /\ AccountFails(accounts, acc, [hist EXCEPT !.faults = @ + 1], "list")

\* a folder loop that connects to the destination for every folder
NeedsDstConnectAlways(newClient) == TRUE

\* if (!newClient): the destination is connected when no session is held
NeedsDstConnect(newClient) == newClient = "null"

\* a folder loop without the dry-run branch
SkipsCopyNever(m) == FALSE

\* if (mode === 'dryrun') continue
SkipsCopy(m) == m = "dryrun"

\* Top of the folder loop for one mailbox: skip, or count and record it.
Discover ==
    /\ pc = "folder"
    /\ acc.fidx <= Len(mailboxList)
    /\ UNCHANGED <<sideVars, mode, job, passwordStore, mailboxList, srcMail>>
    /\ IF IsSkippedMailbox(CurPath)
       THEN /\ NextFolder(acc)
            /\ UNCHANGED <<accounts, folders, drv, hist>>
       ELSE \/ \* getMessageCount raises
               \E plan \in 0 .. 1 :
                  /\ CanFail(1 + plan)
                  /\ FolderFails(folders, accounts, acc,
                                 [hist EXCEPT !.faults = @ + 1,
                                     !.folderErr[CurRow][CurPath] = "failed"], plan)
            \/ LET messageCount == GetMessageCount(CurRow, CurPath)
                   total == acc.accountTotalMessages + messageCount
                   a == [acc EXCEPT !.accountTotalMessages = total]
               IN /\ folders' = CreateFolder(folders, CurRow, CurPath, messageCount, 0, 0)
                  /\ accounts' = UpdateAccountProgress(accounts, CurRow, total, 0, "null")
                  /\ hist' = [hist EXCEPT !.disc[CurRow][CurPath] = messageCount,
                                          !.fetchCount = 0, !.firstFetchFrom = 0,
                                          !.lastBatch = 0, !.tried = {},
                                          !.appended = 0,
                                          !.step = DiscoverTrace(
                                              CurRow, CurPath, messageCount,
                                              total)]
                  /\ drv' = drv
                  /\ IF SkipsCopy(mode)
                     THEN NextFolder(a)
                     ELSE /\ acc' = a
                          /\ cp' = [CpIdle EXCEPT !.messageCount = messageCount]
                          /\ pc' = IF NeedsDstConnect(a.newClient)
                                   THEN "dstConnect"
                                   ELSE "dstSetup"

\* final totals that report every counted message as moved
FinalMovedAlways(m, total) == total

\* mode === 'dryrun' ? 0 : accountTotalMessages
FinalMoved(m, total) == IF m = "dryrun" THEN 0 ELSE total

\* After the last mailbox: final totals, status 'done', the finally block,
\* and back in runJob the reload of the account and the accumulation.
FinishAccount ==
    /\ pc = "folder"
    /\ acc.fidx > Len(mailboxList)
    /\ UNCHANGED <<sideVars, mode, job, folders, passwordStore, mailboxList, srcMail>>
    /\ LET total == acc.accountTotalMessages
           done == [hist EXCEPT !.step = FinishAccountTrace(
                                             CurRow, total,
                                             FinalMoved(mode, total))]
           accts == UpdateAccountStatus(
                        UpdateAccountProgress(accounts, CurRow, total,
                                              FinalMoved(mode, total), "null"),
                        CurRow, "done")
       IN /\ accounts' = accts
          /\ acc' = Finally(acc)
          /\ cp' = CpIdle
          /\ pc' = "account"
          /\ \/ /\ drv' = [drv EXCEPT
                              !.totalMessages = @ + accts[CurRow].totalMessages,
                              !.movedMessages = @ + accts[CurRow].movedMessages,
                              !.i = @ + 1]
                /\ hist' = done
             \/ \* the reload raises inside the inner try: counted as an error
                /\ CanFail(1)
                /\ drv' = [drv EXCEPT !.errorCount = NextErrorCount(@), !.i = @ + 1]
                /\ hist' = [done EXCEPT !.faults = @ + 1,
                                        !.errLogs[CurRow] = @ + 1,
                                        !.acctErr[CurRow] = "reload"]

\* await newClient.connect(), once per account unless it failed
DstConnect ==
    /\ pc = "dstConnect"
    /\ UNCHANGED <<sideVars, mode, job, passwordStore, mailboxList, srcMail>>
    /\ LET h == [hist EXCEPT !.ops = @ \cup {"dst"}]
       IN \/ /\ acc' = [acc EXCEPT !.newClient = "open"]
             /\ pc' = "dstSetup"
             /\ hist' = h
             /\ UNCHANGED <<accounts, folders, drv, cp>>
          \/ \* connect raises: newClient = null, thrown to the folder catch
             \E plan \in 0 .. 1 :
                /\ CanFail(1 + plan)
                /\ FolderFails(folders, accounts, [acc EXCEPT !.newClient = "null"],
                               [h EXCEPT !.faults = @ + 1,
                                   !.folderErr[CurRow][CurPath] = "dstConnect"], plan)

\* folder?.lastProcessedUid || 0
LastProcessedUid(f, r, p) == IF f[r][p] = NoRow THEN 0 ELSE f[r][p].lastProcessedUid

\* let currentUid = lastProcessedUid + 1
FirstUid(last) == last + 1

\* await newClient.listMailboxes(), mapFolderPath, await ensureMailbox(),
\* then the cursor is read back from the store.
DstSetup ==
    /\ pc = "dstSetup"
    /\ UNCHANGED <<sideVars, mode, job, passwordStore, mailboxList, srcMail>>
    /\ \/ \* listMailboxes raises
          \E plan \in 0 .. 1 :
             /\ CanFail(1 + plan)
             /\ FolderFails(folders, accounts, acc,
                            [hist EXCEPT !.faults = @ + 1,
                                         !.folderErr[CurRow][CurPath] = "failed",
                                         !.ops = @ \cup {"dst"}], plan)
       \/ \* ensureMailbox raises
          \E plan \in 0 .. 1 :
             /\ CanFail(1 + plan)
             /\ FolderFails(folders, accounts, acc,
                            [hist EXCEPT !.faults = @ + 1,
                                         !.folderErr[CurRow][CurPath] = "failed",
                                         !.ops = @ \cup {"dst"}], plan)
       \/ /\ cp' = [cp EXCEPT !.processed = 0,
                              !.currentUid =
                                  FirstUid(LastProcessedUid(folders, CurRow, CurPath))]
          /\ pc' = "copy"
          /\ hist' = [hist EXCEPT !.ops = @ \cup {"dst"}]
          /\ UNCHANGED <<accounts, folders, drv, acc>>

(* ----------------------------- batch copy loop ------------------------- *)

\* while (processed < messageCount)
LoopContinues(processed, messageCount) == processed < messageCount

\* a final write that trusts the count taken at discovery
FinalFolderStatusByCount(processed, messageCount) ==
    IF processed >= messageCount THEN "done" ELSE "failed"

\* the status of the write after the loop: always 'done'
FinalFolderStatus(processed, messageCount) == "done"

\* After the loop: updateFolderProgress(processed, currentUid - 1, 'done').
FinishFolder(h) ==
    /\ folders' = UpdateFolderProgress(folders, CurRow, CurPath,
                                       cp.processed, cp.currentUid - 1,
                                       FinalFolderStatus(cp.processed, cp.messageCount))
    /\ NextFolder(acc)
    /\ hist' = h
    /\ UNCHANGED <<accounts, drv>>

\* The loop test and await oldClient.getMessages(folderPath, currentUid, batch_size).
Copy ==
    /\ pc = "copy"
    /\ UNCHANGED <<sideVars, mode, job, passwordStore, mailboxList, srcMail>>
    /\ IF ~LoopContinues(cp.processed, cp.messageCount)
       THEN FinishFolder(hist)
       ELSE LET messages == GetMessages(CurRow, CurPath, cp.currentUid,
                                        accounts[CurRow].batch_size)
                h == [hist EXCEPT !.ops = @ \cup {"fetch"},
                                  !.fetchCount = @ + 1,
                                  !.firstFetchFrom =
                                      IF hist.fetchCount = 0 THEN cp.currentUid ELSE @,
                                  !.lastBatch = Len(messages)]
            IN \/ \* getMessages raises
                  \E plan \in 0 .. 1 :
                     /\ CanFail(1 + plan)
                     /\ FolderFails(folders, accounts, acc,
                                    [h EXCEPT !.faults = @ + 1,
                                        !.folderErr[CurRow][CurPath] = "failed"], plan)
               \/ /\ messages = <<>>
                  /\ FinishFolder(h)
               \/ /\ messages # <<>>
                  /\ cp' = [cp EXCEPT !.batch = messages]
                  /\ pc' = "msg"
                  /\ hist' = h
                  /\ UNCHANGED <<accounts, folders, drv, acc>>

\* a cursor that stays on the last fetched message
NextUidStuck(lastFetched) == lastFetched

\* currentUid = messages[messages.length - 1].uid + 1
NextUid(lastFetched) == lastFetched + 1

\* processed >= messageCount ? 'done' : 'running'
StatusAfterMessage(processed, messageCount) ==
    IF processed >= messageCount THEN "done" ELSE "running"

\* (currentFolder?.movedMessages || 0) + 1
FolderMoved(f, r, p) == (IF f[r][p] = NoRow THEN 0 ELSE f[r][p].movedMessages) + 1

\* One iteration of `for (const message of messages)`; after the last
\* message of the batch the cursor moves past the last fetched identifier.
Msg ==
    /\ pc = "msg"
    /\ UNCHANGED <<sideVars, mode, job, passwordStore, mailboxList, srcMail, drv, acc>>
    /\ LET uid == Head(cp.batch)
           rest == Tail(cp.batch)
           after(c) == IF rest = <<>>
                       THEN [c EXCEPT !.batch = <<>>, !.currentUid = NextUid(uid)]
                       ELSE [c EXCEPT !.batch = rest]
       IN /\ pc' = IF rest = <<>> THEN "copy" ELSE "msg"
          /\ \/ \* the message has no source: warned about and skipped
                /\ CanFail(1)
                /\ cp' = after(cp)
                /\ hist' = [hist EXCEPT !.faults = @ + 1, !.tried = @ \cup {uid}]
                /\ UNCHANGED <<accounts, folders>>
             \/ \* appendMessage raises: logged by the per-message catch
                /\ CanFail(1)
                /\ cp' = after(cp)
                /\ hist' = [hist EXCEPT !.faults = @ + 1, !.tried = @ \cup {uid},
                                        !.ops = @ \cup {"dst"}]
                /\ UNCHANGED <<accounts, folders>>
             \/ LET processed == cp.processed + 1
                    f == UpdateFolderProgress(
                             folders, CurRow, CurPath,
                             FolderMoved(folders, CurRow, CurPath), uid,
                             StatusAfterMessage(processed, cp.messageCount))
                IN /\ cp' = after([cp EXCEPT !.processed = processed])
                   /\ folders' = f
                   /\ accounts' = UpdateAccountProgress(
                                      accounts, CurRow, acc.accountTotalMessages,
                                      TotalMoved(f, CurRow), "null")
                   /\ hist' = [hist EXCEPT !.tried = @ \cup {uid},
                                           !.appended = @ + 1,
                                           !.ops = @ \cup {"dst"},
                                           !.step = MsgTrace(
                                               CurRow, CurPath,
                                               StatusAfterMessage(
                                                   processed, cp.messageCount),
                                               cp.messageCount,
                                               FolderMoved(folders, CurRow, CurPath),
                                               accounts[CurRow] # NoRow,
                                               acc.accountTotalMessages,
                                               TotalMoved(f, CurRow))]

(* ------------------------------ environment ---------------------------- *)

\* A message arrives in the source folder that is being copied, after its
\* count and before the end of its copy loop; it gets the folder's next
\* identifier.
Deliver ==
    /\ pc \in {"copy", "msg"}
    /\ hist.delivered < MaxDeliver
    /\ Events(hist) < MaxEvents
    /\ \E r \in {CurRow}, p \in {CurPath} :
          /\ LET top == IF srcMail[r][p] = {} THEN 0
                        ELSE CHOOSE x \in srcMail[r][p] : \A y \in srcMail[r][p] : y <= x
             IN srcMail' = [srcMail EXCEPT ![r][p] = @ \cup {top + 1}]
    /\ hist' = [hist EXCEPT !.delivered = @ + 1]
    /\ UNCHANGED <<sideVars, mode, job, accounts, folders, passwordStore, mailboxList,
                   pc, drv, acc, cp>>

\* The server process ends: the worker and the credential map are gone,
\* the Progress Store stays as it is.
Restart ==
    /\ hist.restarts < MaxRestarts
    /\ Events(hist) < MaxEvents
    /\ passwordStore' = {}
    /\ pc' = "idle"
    /\ drv' = DrvIdle
    /\ acc' = AccIdle
    /\ cp' = CpIdle
    /\ hist' = [hist EXCEPT !.restarts = @ + 1, !.active = 0,
                            !.result = IF pc = "idle" THEN @ ELSE "killed"]
    /\ UNCHANGED <<sideVars, mode, job, accounts, folders, mailboxList, srcMail>>

(***************************************************************************)
(* The create route on its own: two uploads of one row each go through the *)
(* route, then the worker runs both jobs against the same transport.       *)
(***************************************************************************)

\* the engine is not running while a part is studied on its own
EngineOff ==
    /\ mode = "migrate"
    /\ job = JobCreated
    /\ accounts = [r \in Rows |-> NoRow]
    /\ folders = NoFolders
    /\ passwordStore = {}
    /\ mailboxList = <<>>
    /\ srcMail = [r \in Rows |-> [p \in Paths |-> {}]]
    /\ pc = "off"
    /\ drv = DrvIdle
    /\ acc = AccIdle
    /\ cp = CpIdle
    /\ hist = HistInit

\* what a password cell can hold; "" is the empty cell
Passwords == {"", "p", "q"}

Emails == {"a@old", "b@old"}

\* a row of the worksheet; batch_size 0 is the empty cell
ExcelRows ==
    [old_email : Emails, old_password : Passwords, new_password : Passwords,
     batch_size : 0 .. MaxBatch]

\* the form's batch_size when the field is absent
DefaultBatchSize == 200

\* the required-field checks of the route that depend on the credentials
RowErrors(row) ==
    {f \in {"old_password", "new_password"} : row[f] = ""}

NoPasswords == [exists |-> FALSE]

\* storePasswords: the entry of the in-memory map
StorePasswords(oldPassword, newPassword) ==
    [exists |-> TRUE, old |-> oldPassword, new |-> newPassword]

\* a create route whose account row would carry the source password
CreateRouteStoringPassword(row, defaultBatchSize) ==
    IF RowErrors(row) # {}
    THEN [db |-> NoRow, mem |-> NoPasswords]
    ELSE [db |-> [old_email |-> row.old_email,
                  old_password |-> row.old_password]
                 @@ AccountCreated(IF row.batch_size = 0 THEN defaultBatchSize
                                   ELSE row.batch_size),
          mem |-> StorePasswords(row.old_password, row.new_password)]

\* POST /api/jobs for one row: the account row written by createAccount
\* (db) and the entry put in the in-memory map (mem); a row that fails
\* validation creates neither.
CreateRoute(row, defaultBatchSize) ==
    IF RowErrors(row) # {}
    THEN [db |-> NoRow, mem |-> NoPasswords]
    ELSE [db |-> [old_email |-> row.old_email]
                 @@ AccountCreated(IF row.batch_size = 0 THEN defaultBatchSize
                                   ELSE row.batch_size),
          mem |-> StorePasswords(row.old_password, row.new_password)]

\* getPassword: "" stands for undefined
GetPassword(mem, type) ==
    IF ~mem.exists THEN ""
    ELSE IF type = "old" THEN mem.old
    ELSE IF mem.new # "" THEN mem.new ELSE mem.old

\* what the transport does with the sessions of one run
TransportOutcomes == {"ok", "srcConnect", "dstConnect", "append"}

\* the account row at the end of processAccount
AccountAfterRun(c, o) ==
    IF c.db = NoRow THEN NoRow
    ELSE IF GetPassword(c.mem, "old") = ""
    THEN [c.db EXCEPT !.status = "failed", !.lastError = "password"]
    ELSE IF o = "srcConnect"
    THEN [c.db EXCEPT !.status = "failed", !.lastError = "connect"]
    ELSE [c.db EXCEPT !.status = "done", !.totalMessages = 1,
                      !.movedMessages = 1]

\* the INBOX row as createFolder writes it at discovery
FolderCreated(t) == CreateFolder(NoFolders, 0, "INBOX", t, 0, 0)[0]["INBOX"]

\* the INBOX row at the end of processAccount (one message in the mailbox)
FolderAfterRun(c, o) ==
    IF c.db = NoRow \/ GetPassword(c.mem, "old") = "" \/ o = "srcConnect"
    THEN NoRow
    ELSE IF o = "dstConnect"
    THEN [FolderCreated(1) EXCEPT !.status = "failed"]
    ELSE [FolderCreated(1) EXCEPT !.status = "done",
                                  !.movedMessages = IF o = "append" THEN 0 ELSE 1,
                                  !.lastProcessedUid = 1]

InitUpload ==
    /\ EngineOff
    /\ bus = BusIdle
    /\ flagRun = FlagIdle
    /\ mapRun = MapIdle
    /\ sess = SessionIdle
    /\ \E a \in ExcelRows, b \in ExcelRows :
          upload = [phase |-> "rows", a |-> a, b |-> b]

\* both uploads are posted
UploadCreate ==
    /\ upload.phase = "rows"
    /\ upload' = [phase |-> "created", a |-> upload.a, b |-> upload.b,
                  outA |-> CreateRoute(upload.a, DefaultBatchSize),
                  outB |-> CreateRoute(upload.b, DefaultBatchSize)]
    /\ UNCHANGED <<engineVars, bus, flagRun, mapRun, sess>>

\* both jobs are run, the transport behaving the same way for both
UploadRun ==
    /\ upload.phase = "created"
    /\ \E o \in TransportOutcomes :
          upload' = [phase |-> "ran", a |-> upload.a, b |-> upload.b,
                     outA |-> upload.outA, outB |-> upload.outB, o |-> o,
                     accountA |-> AccountAfterRun(upload.outA, o),
                     accountB |-> AccountAfterRun(upload.outB, o),
                     folderA |-> FolderAfterRun(upload.outA, o),
                     folderB |-> FolderAfterRun(upload.outB, o)]
    /\ UNCHANGED <<engineVars, bus, flagRun, mapRun, sess>>

NextUpload ==
    \/ UploadCreate
    \/ UploadRun

SpecUpload == InitUpload /\ [][NextUpload]_vars


(***************************************************************************)
(* The EventBus on its own: stream connections subscribe and unsubscribe   *)
(* their callbacks while events are published for two jobs.                *)
(***************************************************************************)

MaxBusPublish == 4
MaxBusSubs == 2

JobIds == {"j1", "j2"}

\* one callback per stream connection
Callbacks == {"c1", "c2"}

\* const key = `job:${jobId}`
ListenerKey(jobId) == <<"job:", jobId>>

\* the callbacks of a key; {} when the map has no such key
CallbacksOf(listeners, key) ==
    IF key \in DOMAIN listeners THEN listeners[key] ELSE {}

\* subscribe: the key gets a set if it has none, the callback is added
Subscribe(listeners, jobId, callback) ==
    LET key == ListenerKey(jobId)
    IN [k \in DOMAIN listeners \cup {key} |->
           IF k = key THEN CallbacksOf(listeners, key) \cup {callback}
           ELSE listeners[k]]

\* an unsubscribe that leaves the callback in the set
UnsubscribeKeeps(listeners, jobId, callback) == listeners

\* unsubscribe: the callback is deleted from the set of the key, if any
Unsubscribe(listeners, jobId, callback) ==
    LET key == ListenerKey(jobId)
    IN IF key \in DOMAIN listeners
       THEN [listeners EXCEPT ![key] = @ \ {callback}]
       ELSE listeners

\* JSON.stringify({ event, data, ts }): the job id is not part of it
BusMessage(event, ts) == [event |-> event, ts |-> ts]

\* publish: every callback of the key is called once with the message
PublishTo(listeners, got, jobId, message) ==
    [cb \in Callbacks |->
        IF cb \in CallbacksOf(listeners, ListenerKey(jobId))
        THEN Append(got[cb], message)
        ELSE got[cb]]

\* how many calls of the given kinds the bus has seen
BusCalls(ops) == Cardinality({i \in 1 .. Len(bus.log) : bus.log[i].op \in ops})

InitBus ==
    /\ EngineOff
    /\ upload = UploadIdle
    /\ flagRun = FlagIdle
    /\ mapRun = MapIdle
    /\ sess = SessionIdle
    /\ bus = [phase |-> "on",
              listeners |-> [k \in {} |-> {}],
              got |-> [cb \in Callbacks |-> <<>>],
              log |-> <<>>]

\* GET /api/jobs/{id}/stream: eventBus.subscribe(jobId, callback)
BusSubscribe ==
    /\ bus.phase = "on"
    /\ BusCalls({"subscribe", "unsubscribe"}) < MaxBusSubs
    /\ \E jobId \in JobIds, cb \in Callbacks :
          bus' = [bus EXCEPT
                     !.listeners = Subscribe(@, jobId, cb),
                     !.log = Append(@, [op |-> "subscribe", jobId |-> jobId,
                                        cb |-> cb])]
    /\ UNCHANGED <<engineVars, upload, flagRun, mapRun, sess>>

\* the request is aborted: eventBus.unsubscribe(jobId, callback)
BusUnsubscribe ==
    /\ bus.phase = "on"
    /\ BusCalls({"subscribe", "unsubscribe"}) < MaxBusSubs
    /\ \E jobId \in JobIds, cb \in Callbacks :
          bus' = [bus EXCEPT
                     !.listeners = Unsubscribe(@, jobId, cb),
                     !.log = Append(@, [op |-> "unsubscribe", jobId |-> jobId,
                                        cb |-> cb])]
    /\ UNCHANGED <<engineVars, upload, flagRun, mapRun, sess>>

\* eventBus.publish(jobId, 'log', ...), stamped with the time of the call
BusPublish ==
    /\ bus.phase = "on"
    /\ BusCalls({"publish"}) < MaxBusPublish
    /\ \E jobId \in JobIds :
          bus' = [bus EXCEPT
                     !.got = PublishTo(bus.listeners, @, jobId,
                                       BusMessage("log", Len(bus.log) + 1)),
                     !.log = Append(@, [op |-> "publish", jobId |-> jobId,
                                        cb |-> "-"])]
    /\ UNCHANGED <<engineVars, upload, flagRun, mapRun, sess>>

NextBus ==
    \/ BusSubscribe
    \/ BusUnsubscribe
    \/ BusPublish

SpecBus == InitBus /\ [][NextBus]_vars

(***************************************************************************)
(* The flag filter of the copy loop on its own: a fetched message arrives  *)
(* with some flags, each a string of characters, and the filter runs.      *)
(***************************************************************************)

MaxFlags == 3
MaxFlagChars == 4

\* the character classes of the two patterns, and one character outside
Letters == {"S"}
Digits == {"1"}
FlagChars == {"\\"} \cup Letters \cup Digits \cup {"-", "_", "#"}

\* [A-Za-z]
LetterClass == Letters

\* a custom-flag class that has lost the dash
CustomClassNoDash == Letters \cup Digits \cup {"_"}

\* [a-zA-Z0-9_-]
CustomClass == Letters \cup Digits \cup {"_", "-"}

RECURSIVE ClassPlusToEnd(_, _, _)
\* [class]+$ tried at position i of s
ClassPlusToEnd(s, i, class) ==
    /\ i <= Len(s)
    /\ s[i] \in class
    /\ (i = Len(s) \/ ClassPlusToEnd(s, i + 1, class))

\* /^\\[A-Za-z]+$/.test(flagStr)
SystemFlagRegex(flagStr) ==
    /\ Len(flagStr) >= 1
    /\ flagStr[1] = "\\"
    /\ ClassPlusToEnd(flagStr, 2, LetterClass)

\* /^[a-zA-Z0-9_-]+$/.test(flagStr)
CustomFlagRegex(flagStr) == ClassPlusToEnd(flagStr, 1, CustomClass)

RECURSIVE FilterFlags(_)
\* flagArray.filter(...): the elements that pass, in the order of the array
FilterFlags(flagArray) ==
    IF flagArray = << >> THEN << >>
    ELSE (IF SystemFlagRegex(Head(flagArray)) \/ CustomFlagRegex(Head(flagArray))
          THEN << Head(flagArray) >> ELSE << >>)
         \o FilterFlags(Tail(flagArray))

FlagsUndefined == [defined |-> FALSE]

\* validFlags: undefined when the message has no flags or none passes
ValidFlags(hasFlags, flagArray) ==
    IF ~hasFlags THEN FlagsUndefined
    ELSE LET kept == FilterFlags(flagArray)
         IN IF Len(kept) = 0 THEN FlagsUndefined
            ELSE [defined |-> TRUE, flags |-> kept]

\* The repository holds two versions of the transport adapter; which one a
\* build picks up is not fixed by the sources.
Adapters == {"client.ts", "part_005"}

\* client.ts: this.client.append(path, source, { flags: flags || [], ... }),
\* a flag list is always handed over, empty when flags is undefined
AppendMessage(flags) ==
    [hasFlagList |-> TRUE,
     flags |-> IF flags.defined THEN flags.flags ELSE << >>]

\* part_005: flagsToPass = hasFlags ? flags : undefined, handed over as a
\* parameter of its own
AppendMessageSeparateArgs(flags) ==
    IF flags.defined /\ Len(flags.flags) > 0
    THEN [hasFlagList |-> TRUE, flags |-> flags.flags]
    ELSE [hasFlagList |-> FALSE, flags |-> << >>]

\* await newClient.appendMessage(mappedPath, message.source, validFlags, ...):
\* what the adapter hands to the protocol library
AppendCall(adapter, validFlags) ==
    IF adapter = "client.ts" THEN AppendMessage(validFlags)
    ELSE AppendMessageSeparateArgs(validFlags)

RECURSIVE CharsIn(_)
CharsIn(flagArray) ==
    IF flagArray = << >> THEN 0
    ELSE Len(Head(flagArray)) + CharsIn(Tail(flagArray))

InitFlags ==
    /\ EngineOff
    /\ upload = UploadIdle
    /\ bus = BusIdle
    /\ mapRun = MapIdle
    /\ sess = SessionIdle
    /\ flagRun = [phase |-> "fetched", flags |-> << >>]

\* the fetched message has one more flag, empty so far
FlagArrives ==
    /\ flagRun.phase = "fetched"
    /\ Len(flagRun.flags) < MaxFlags
    /\ flagRun' = [flagRun EXCEPT !.flags = Append(@, << >>)]
    /\ UNCHANGED <<engineVars, upload, bus, mapRun, sess>>

\* the last flag of the fetched message has one more character
FlagGrows ==
    /\ flagRun.phase = "fetched"
    /\ flagRun.flags # << >>
    /\ CharsIn(flagRun.flags) < MaxFlagChars
    /\ \E c \in FlagChars :
          flagRun' = [flagRun EXCEPT !.flags[Len(flagRun.flags)] = Append(@, c)]
    /\ UNCHANGED <<engineVars, upload, bus, mapRun, sess>>

\* the copy loop reaches the message: its flags are filtered and the
\* message is appended
FlagFilter ==
    /\ flagRun.phase = "fetched"
    /\ \E adapter \in Adapters :
          flagRun' = [phase |-> "filtered", flags |-> flagRun.flags,
                      hasFlags |-> TRUE,
                      validFlags |-> ValidFlags(TRUE, flagRun.flags),
                      adapter |-> adapter,
                      append |-> AppendCall(adapter,
                                            ValidFlags(TRUE, flagRun.flags))]
    /\ UNCHANGED <<engineVars, upload, bus, mapRun, sess>>

\* the copy loop reaches a message that was fetched without flags
FlagFilterNoFlags ==
    /\ flagRun.phase = "fetched"
    /\ flagRun.flags = << >>
    /\ \E adapter \in Adapters :
          flagRun' = [phase |-> "filtered", flags |-> << >>,
                      hasFlags |-> FALSE,
                      validFlags |-> ValidFlags(FALSE, << >>),
                      adapter |-> adapter,
                      append |-> AppendCall(adapter, ValidFlags(FALSE, << >>))]
    /\ UNCHANGED <<engineVars, upload, bus, mapRun, sess>>

NextFlags ==
    \/ FlagArrives
    \/ FlagGrows
    \/ FlagFilter
    \/ FlagFilterNoFlags

SpecFlags == InitFlags /\ [][NextFlags]_vars

(* --------------------------- folder reconciler ------------------------- *)

\* A folder path is a string, modelled as the sequence of its pieces: a
\* piece is a run of letters in one spelling, or a separator character.
\* "Spam" and "spam" differ only in case, "Junk" is another name of the
\* same standard folder, "Parent" names no standard folder.

\* mailboxes the destination lists
MaxMailboxes == 2

MapNames == {"Parent", "Spam", "spam", "Junk"}
MapSeparators == {".", "/"}
\* the folders at the top of a hierarchy and the folders below them
MapParents == {"Parent", "Junk"}
MapChildren == {"Parent", "Spam", "spam"}
MapPaths ==
    {<<a>> : a \in MapNames}
    \cup {<<a, s, b>> : a \in MapParents, s \in MapSeparators,
                        b \in MapChildren}

\* String.prototype.toLowerCase, piece by piece
LowerPiece(c) ==
    CASE c = "Parent" -> "parent"
      [] c = "Spam" -> "spam"
      [] c = "Junk" -> "junk"
      [] OTHER -> c

ToLowerCase(s) == [i \in 1 .. Len(s) |-> LowerPiece(s[i])]

\* String.prototype.trim: white space at both ends is dropped
RECURSIVE TrimStart(_)
TrimStart(s) ==
    IF s # << >> /\ Head(s) = " " THEN TrimStart(Tail(s)) ELSE s

RECURSIVE TrimEnd(_)
TrimEnd(s) ==
    IF s # << >> /\ s[Len(s)] = " " THEN TrimEnd(SubSeq(s, 1, Len(s) - 1))
    ELSE s

Trim(s) == TrimEnd(TrimStart(s))

\* STANDARD_FOLDER_MAPPINGS, the entries whose variants can be spelled with
\* the pieces above: spam: ['Spam', 'Junk', ...]
StandardFolderMappings == [spam |-> {<<"Spam">>, <<"Junk">>}]

\* standard.charAt(0).toUpperCase() + standard.slice(1)
Capitalized(standard) == IF standard = "spam" THEN <<"Spam">> ELSE <<standard>>

\* normalizeFolderName: the capitalised standard name when the lower-cased,
\* trimmed name is a variant of a standard folder, else the name as given
NormalizeFolderName(name) ==
    LET lower == Trim(ToLowerCase(name))
        hits == {standard \in DOMAIN StandardFolderMappings :
                    \E v \in StandardFolderMappings[standard] :
                        ToLowerCase(v) = lower}
    IN  IF hits # {} THEN Capitalized(CHOOSE standard \in hits : TRUE)
        ELSE name

\* normalizeChildName: standardNames[lower] || childName
NormalizeChildName(childName) ==
    LET lower == ToLowerCase(childName)
    IN  CASE lower = <<"spam">> -> <<"Spam">>
          [] lower = <<"junk">> -> <<"Junk">>
          [] OTHER -> childName

\* Array.prototype.includes
Includes(array, s) == \E i \in 1 .. Len(array) : array[i] = s

\* Array.prototype.find over the positions where the test holds: the first
\* such element, or nothing
FirstOf(array, hits) ==
    IF hits = {} THEN [found |-> FALSE]
    ELSE [found |-> TRUE,
          value |-> array[CHOOSE i \in hits : \A j \in hits : i <= j]]

\* newMailboxes.find((mb) => mb.toLowerCase() === s.toLowerCase())
FindIgnoringCase(newMailboxes, s) ==
    FirstOf(newMailboxes,
            {i \in 1 .. Len(newMailboxes) :
                ToLowerCase(newMailboxes[i]) = ToLowerCase(s)})

\* newMailboxes.find((mb) => normalizeFolderName(mb) === normalized)
FindNormalized(newMailboxes, normalized) ==
    FirstOf(newMailboxes,
            {i \in 1 .. Len(newMailboxes) :
                NormalizeFolderName(newMailboxes[i]) = normalized})

\* oldPath.split(sep): parts[0] and parts.slice(1).join(sep)
SplitAt(s, sep) ==
    LET at == {i \in 1 .. Len(s) : s[i] = sep}
        first == CHOOSE i \in at : \A j \in at : i <= j
    IN  IF at = {} THEN [nested |-> FALSE]
        ELSE [nested |-> TRUE,
              parent |-> SubSeq(s, 1, first - 1),
              child |-> SubSeq(s, first + 1, Len(s))]

\* mapFolderPath as first defined in mapping.ts: exact, case-insensitive,
\* normalized, then parent and child separately across '.'
RECURSIVE MapFolderPath(_, _)
MapFolderPath(oldPath, newMailboxes) ==
    LET caseInsensitiveMatch == FindIgnoringCase(newMailboxes, oldPath)
        exactMatch ==
            FindNormalized(newMailboxes, NormalizeFolderName(oldPath))
        parts == SplitAt(oldPath, ".")
        fullPath == MapFolderPath(parts.parent, newMailboxes)
                    \o <<".">> \o NormalizeChildName(parts.child)
        caseInsensitiveFullMatch == FindIgnoringCase(newMailboxes, fullPath)
    IN  IF Includes(newMailboxes, oldPath) THEN oldPath
        ELSE IF caseInsensitiveMatch.found THEN caseInsensitiveMatch.value
        ELSE IF exactMatch.found THEN exactMatch.value
        ELSE IF parts.nested
             THEN IF Includes(newMailboxes, fullPath) THEN fullPath
                  ELSE IF caseInsensitiveFullMatch.found
                       THEN caseInsensitiveFullMatch.value
                  ELSE fullPath
        ELSE oldPath

\* mapFolderPath as defined the second time in mapping.ts: exact,
\* normalized, then the parent alone across '/'
RECURSIVE MapFolderPathSecond(_, _)
MapFolderPathSecond(oldPath, newMailboxes) ==
    LET exactMatch ==
            FindNormalized(newMailboxes, NormalizeFolderName(oldPath))
        parts == SplitAt(oldPath, "/")
    IN  IF Includes(newMailboxes, oldPath) THEN oldPath
        ELSE IF exactMatch.found THEN exactMatch.value
        ELSE IF parts.nested
             THEN MapFolderPathSecond(parts.parent, newMailboxes)
                  \o <<"/">> \o parts.child
        ELSE oldPath

\* mapping.ts declares mapFolderPath twice; which declaration the worker's
\* import binds to is decided by the build
MapDefinitions == {"first", "second"}

MappedPath(definition, folderPath, newMailboxes) ==
    IF definition = "first" THEN MapFolderPath(folderPath, newMailboxes)
    ELSE MapFolderPathSecond(folderPath, newMailboxes)

InitMapping ==
    /\ EngineOff
    /\ upload = UploadIdle
    /\ bus = BusIdle
    /\ flagRun = FlagIdle
    /\ sess = SessionIdle
    /\ \E folderPath \in MapPaths :
          mapRun = [phase |-> "listing", folderPath |-> folderPath,
                    newMailboxes |-> << >>]

\* the destination lists one more mailbox
MapLists ==
    /\ mapRun.phase = "listing"
    /\ Len(mapRun.newMailboxes) < MaxMailboxes
    /\ \E mb \in MapPaths :
          mapRun' = [mapRun EXCEPT !.newMailboxes = Append(@, mb)]
    /\ UNCHANGED <<engineVars, upload, bus, flagRun, sess>>

\* const mappedPath = mapFolderPath(folderPath, newMailboxes.map(mb => mb.path))
MapFolder ==
    /\ mapRun.phase = "listing"
    /\ \E definition \in MapDefinitions :
          mapRun' = [phase |-> "mapped", folderPath |-> mapRun.folderPath,
                     newMailboxes |-> mapRun.newMailboxes,
                     definition |-> definition,
                     mappedPath |-> MappedPath(definition, mapRun.folderPath,
                                               mapRun.newMailboxes)]
    /\ UNCHANGED <<engineVars, upload, bus, flagRun, sess>>

NextMapping ==
    \/ MapLists
    \/ MapFolder

SpecMapping == InitMapping /\ [][NextMapping]_vars

(***************************************************************************)
(* The sessions of one execution of processAccount on their own: which     *)
(* sessions it opens, which it disconnects in its finally block, and what  *)
(* a failing disconnect does to the account row and to the outcome.  Every *)
(* folder of the account holds one message.                                *)
(***************************************************************************)

\* folders the source lists for the account
MaxSessionFolders == 3

\* the account row as createAccount leaves it
SessionRow == [status |-> "pending", totalMessages |-> 0, movedMessages |-> 0,
               lastError |-> "null"]

\* processAccount is entered: let oldClient = null, newClient = null
SessionEntered(m, hasPassword) ==
    [phase |-> "enter", mode |-> m, hasPassword |-> hasPassword,
     oldClient |-> "null", newClient |-> "null", fidx |-> 0, copied |-> 0,
     row |-> SessionRow, rowAtFinally |-> SessionRow,
     opened |-> {}, disconnects |-> {}, logoutErrors |-> {},
     pending |-> "none", outcome |-> "none"]

\* an exception reaches the catch of processAccount: status 'failed',
\* progress 0/0/err.message, throw err
SessionCatch(s, message) ==
    [s EXCEPT !.phase = "finally",
              !.row = [status |-> "failed", totalMessages |-> 0,
                       movedMessages |-> 0, lastError |-> message],
              !.pending = "raised"]

\* the folder catch: updateFolderProgress(0, 0, 'failed') and on with the
\* next folder; storeRaises: that write raises and the exception leaves the
\* folder loop
SessionFolderCatch(s, storeRaises) ==
    IF storeRaises THEN SessionCatch(s, "store")
    ELSE [s EXCEPT !.fidx = @ + 1]

\* a disconnect error that takes the place of the outcome of the account
OutcomeMaskedByDisconnect(pending, logoutErrors) ==
    IF logoutErrors # {} THEN "raised" ELSE pending

\* try { await client.disconnect() } catch (err) { console.error(...) }:
\* the outcome of the account is the one the try or the catch block left
OutcomeAfterFinally(pending, logoutErrors) == pending

\* what a session is after client.disconnect(): logout() returned, or it
\* raised and left the connection as it was
AfterDisconnect(client, raises) ==
    IF client = "null" THEN "null"
    ELSE IF raises THEN "logoutFailed"
    ELSE "closed"

InitSessions ==
    /\ EngineOff
    /\ upload = UploadIdle
    /\ bus = BusIdle
    /\ flagRun = FlagIdle
    /\ mapRun = MapIdle
    /\ \E m \in {"dryrun", "migrate"}, hasPassword \in BOOLEAN :
          sess = SessionEntered(m, hasPassword)

\* getPassword and new IMAPClient for the source
SessionStarts ==
    /\ sess.phase = "enter"
    /\ sess' = IF sess.hasPassword
               THEN [sess EXCEPT !.phase = "srcConnect", !.oldClient = "closed"]
               ELSE SessionCatch(sess, "password")
    /\ UNCHANGED <<engineVars, upload, bus, flagRun, mapRun>>

\* await oldClient.connect()
SessionSrcConnect ==
    /\ sess.phase = "srcConnect"
    /\ \/ sess' = [sess EXCEPT !.phase = "srcList", !.oldClient = "open",
                               !.opened = @ \cup {"old"}]
       \/ sess' = SessionCatch(sess, "connect")
    /\ UNCHANGED <<engineVars, upload, bus, flagRun, mapRun>>

\* await oldClient.listMailboxes(), then status 'running'
SessionSrcList ==
    /\ sess.phase = "srcList"
    /\ \/ sess' = [sess EXCEPT !.phase = "folder", !.fidx = 1,
                               !.row.status = "running"]
       \/ sess' = SessionCatch(sess, "list")
    /\ UNCHANGED <<engineVars, upload, bus, flagRun, mapRun>>

\* one mailbox of the folder loop in dry-run mode: counted and recorded
SessionFolderDryRun ==
    /\ sess.phase = "folder"
    /\ sess.fidx <= MaxSessionFolders
    /\ sess.mode = "dryrun"
    /\ \/ sess' = [sess EXCEPT !.fidx = @ + 1, !.row.totalMessages = @ + 1,
                               !.row.movedMessages = 0]
       \/ \E storeRaises \in BOOLEAN :
             sess' = SessionFolderCatch(sess, storeRaises)
    /\ UNCHANGED <<engineVars, upload, bus, flagRun, mapRun>>

\* one mailbox of the folder loop in migrate mode: counted and recorded,
\* the destination connected if (!newClient), the message copied
SessionFolderMigrate ==
    /\ sess.phase = "folder"
    /\ sess.fidx <= MaxSessionFolders
    /\ sess.mode = "migrate"
    /\ LET counted == [sess EXCEPT !.row.totalMessages = @ + 1,
                                   !.row.movedMessages = 0]
           connected == IF NeedsDstConnect(sess.newClient)
                        THEN [counted EXCEPT !.newClient = "open",
                                             !.opened = @ \cup {"new"}]
                        ELSE counted
       IN \/ \* getMessageCount raises
             \E storeRaises \in BOOLEAN :
                sess' = SessionFolderCatch(sess, storeRaises)
          \/ \* newClient.connect() raises: newClient = null, thrown again
             /\ NeedsDstConnect(sess.newClient)
             /\ \E storeRaises \in BOOLEAN :
                   sess' = SessionFolderCatch(counted, storeRaises)
          \/ \* a call after the connect raises
             \E storeRaises \in BOOLEAN :
                sess' = SessionFolderCatch(connected, storeRaises)
          \/ \* the message is appended
             sess' = [connected EXCEPT !.fidx = @ + 1, !.copied = @ + 1,
                                       !.row.movedMessages = sess.copied + 1]
    /\ UNCHANGED <<engineVars, upload, bus, flagRun, mapRun>>

\* after the last mailbox: final totals and status 'done'
SessionCompletes ==
    /\ sess.phase = "folder"
    /\ sess.fidx > MaxSessionFolders
    /\ sess' = [sess EXCEPT
                   !.phase = "finally",
                   !.row.status = "done",
                   !.row.movedMessages =
                       FinalMoved(sess.mode, sess.row.totalMessages),
                   !.pending = "returned"]
    /\ UNCHANGED <<engineVars, upload, bus, flagRun, mapRun>>

\* the finally block: both clients are disconnected if they are set, each
\* disconnect inside a try/catch of its own
SessionFinally ==
    /\ sess.phase = "finally"
    /\ \E oldRaises \in BOOLEAN, newRaises \in BOOLEAN :
          /\ oldRaises => sess.oldClient # "null"
          /\ newRaises => sess.newClient # "null"
          /\ LET logoutErrors == {c \in {"old"} : oldRaises}
                                 \cup {c \in {"new"} : newRaises}
             IN sess' = [sess EXCEPT
                   !.phase = "ended",
                   !.rowAtFinally = sess.row,
                   !.disconnects =
                       {c \in {"old"} : sess.oldClient # "null"}
                       \cup {c \in {"new"} : sess.newClient # "null"},
                   !.logoutErrors = logoutErrors,
                   !.oldClient = AfterDisconnect(sess.oldClient, oldRaises),
                   !.newClient = AfterDisconnect(sess.newClient, newRaises),
                   !.outcome = OutcomeAfterFinally(sess.pending, logoutErrors)]
    /\ UNCHANGED <<engineVars, upload, bus, flagRun, mapRun>>

NextSessions ==
    \/ SessionStarts
    \/ SessionSrcConnect
    \/ SessionSrcList
    \/ SessionFolderDryRun
    \/ SessionFolderMigrate
    \/ SessionCompletes
    \/ SessionFinally

SpecSessions == InitSessions /\ [][NextSessions]_vars

(***************************************************************************)
(* EventBus.publish with callbacks that may raise: the worker publishes    *)
(* from inside its message, folder, account and job try blocks while the   *)
(* callbacks of stream connections are subscribed in some order.           *)
(***************************************************************************)

MaxObserverPublish == 3

\* where the worker publishes from: an exception leaving publish there would
\* be caught by the try block of that message, folder, account or job
PublishSites == {"message", "folder", "account", "job"}

\* Set.add: the callbacks of a key are iterated in insertion order
SubscribeInOrder(order, callback) ==
    IF \E i \in DOMAIN order : order[i] = callback THEN order
    ELSE Append(order, callback)

\* Set.delete
UnsubscribeInOrder(order, callback) ==
    SelectSeq(order, LAMBDA c : c # callback)

\* a forEach without the try/catch around cb(message): the first exception
\* ends the loop and leaves publish
RECURSIVE ForEachUnguarded(_, _)
ForEachUnguarded(order, raisers) ==
    IF order = <<>> THEN [called |-> <<>>, logged |-> 0, thrown |-> FALSE]
    ELSE IF Head(order) \in raisers
         THEN [called |-> <<Head(order)>>, logged |-> 0, thrown |-> TRUE]
         ELSE LET rest == ForEachUnguarded(Tail(order), raisers)
              IN [rest EXCEPT !.called = <<Head(order)>> \o @]

\* callbacks.forEach((cb) => { try { cb(message) } catch (err) {
\* console.error(...) } }): the callbacks called, the errors logged, and
\* whether an exception leaves the loop
RECURSIVE ForEach(_, _)
ForEach(order, raisers) ==
    IF order = <<>> THEN [called |-> <<>>, logged |-> 0, thrown |-> FALSE]
    ELSE LET rest == ForEach(Tail(order), raisers)
         IN [rest EXCEPT !.called = <<Head(order)>> \o @,
                         !.logged = @ + (IF Head(order) \in raisers THEN 1 ELSE 0)]

\* what an exception leaving publish would do to the worker: the enclosing
\* try block of the site fails
FailedSites(failed, site, thrown) ==
    IF thrown THEN failed \cup {site} ELSE failed

InitObservers ==
    /\ EngineOff
    /\ upload = UploadIdle
    /\ flagRun = FlagIdle
    /\ mapRun = MapIdle
    /\ sess = SessionIdle
    /\ bus = [phase |-> "observed",
              listeners |-> [j \in JobIds |-> <<>>],
              published |-> 0,
              last |-> [jobId |-> "-", site |-> "-", subscribed |-> <<>>,
                        raisers |-> {}, called |-> <<>>, logged |-> 0,
                        thrown |-> FALSE],
              failed |-> {}]

\* a stream connection subscribes its callback
ObserverSubscribes ==
    /\ bus.phase = "observed"
    /\ \E jobId \in JobIds, cb \in Callbacks :
          bus' = [bus EXCEPT !.listeners[jobId] = SubscribeInOrder(@, cb)]
    /\ UNCHANGED <<engineVars, upload, flagRun, mapRun, sess>>

\* a stream connection is aborted
ObserverUnsubscribes ==
    /\ bus.phase = "observed"
    /\ \E jobId \in JobIds, cb \in Callbacks :
          bus' = [bus EXCEPT !.listeners[jobId] = UnsubscribeInOrder(@, cb)]
    /\ UNCHANGED <<engineVars, upload, flagRun, mapRun, sess>>

\* the worker publishes an event for a job; the callbacks in raisers raise
\* when they are called (controller.enqueue on a stream that cannot take
\* the chunk)
ObservedPublish ==
    /\ bus.phase = "observed"
    /\ bus.published < MaxObserverPublish
    /\ \E jobId \in JobIds, site \in PublishSites, raisers \in SUBSET Callbacks :
          LET order == bus.listeners[jobId]
              done == ForEach(order, raisers)
          IN bus' = [bus EXCEPT
                        !.published = @ + 1,
                        !.last = [jobId |-> jobId, site |-> site,
                                  subscribed |-> order, raisers |-> raisers,
                                  called |-> done.called, logged |-> done.logged,
                                  thrown |-> done.thrown],
                        !.failed = FailedSites(@, site, done.thrown)]
    /\ UNCHANGED <<engineVars, upload, flagRun, mapRun, sess>>

NextObservers ==
    \/ ObserverSubscribes
    \/ ObserverUnsubscribes
    \/ ObservedPublish

SpecObservers == InitObservers /\ [][NextObservers]_vars

(* ------------------------------ specification -------------------------- *)

Next ==
    \/ StartRequest
    \/ BeginAccount
    \/ SrcConnect
    \/ SrcList
    \/ Discover
    \/ DstConnect
    \/ DstSetup
    \/ Copy
    \/ Msg
    \/ FinishAccount
    \/ FinishJob
    \/ Deliver

\* the engine in a server process that stays up
Spec == Init /\ [][Next]_vars

\* the batch scenario: one account, one folder
SpecBatch == InitBatch /\ [][Next]_vars

\* One account in migrate mode, one folder holding the messages 1 .. N.
InitLoop ==
    /\ mode = "migrate"
    /\ \E n \in 0 .. MaxUid, b \in 1 .. MaxBatch :
          InitWith(1, b, <<"INBOX">>,
                   [r \in Rows |-> [p \in Paths |->
                       IF r = 0 /\ p = "INBOX" THEN 1 .. n ELSE {}]])

\* A worker that keeps running: an await of the copy loop that has settled
\* is resumed by the event loop.
SpecLoopFair == InitLoop /\ [][Next]_vars /\ WF_vars(Copy \/ Msg)

\* the engine with process terminations
NextRestart == Next \/ Restart

SpecRestart == Init /\ [][NextRestart]_vars

(* ------------------------------ properties ----------------------------- *)

AccountRows == GetAccountsByJob(accounts)
FolderKeys == {rp \in Rows \X Paths : folders[rp[1]][rp[2]] # NoRow}
\* a run of runJob has ended and the process was never terminated
RunEnded == pc = "idle" /\ hist.runs > 0 /\ hist.restarts = 0
\* the rows whose source connect raised in the last run
ConnectFailed == {r \in AccountRows : hist.acctErr[r] = "connect"}
\* sum of the counts discovered for a row in the last run
DiscoveredTotal(r) ==
    SumOver({p \in Paths : hist.disc[r][p] # -1}, [p \in Paths |-> hist.disc[r][p]])
CeilDiv(n, b) == (n + b - 1) \div b
Min(a, b) == IF a <= b THEN a ELSE b

\* C1: when a run starts with a folder whose stored cursor is k > 0 (status
\* running or failed), the first fetch of that folder in the run asks for
\* k + 1, so no fetch of the run asks for an identifier <= k.
C1_ResumesAfterCursor ==
    (/\ pc \in {"copy", "msg"}
     /\ hist.fetchCount >= 1
     /\ hist.startFolders[CurRow][CurPath] # NoRow
     /\ hist.startFolders[CurRow][CurPath].status \in {"running", "failed"}
     /\ hist.startFolders[CurRow][CurPath].lastProcessedUid > 0)
    => hist.firstFetchFrom = hist.startFolders[CurRow][CurPath].lastProcessedUid + 1

\* C2: discovering a folder whose row already exists with status running or
\* done, with the same total, leaves its movedMessages and its cursor as
\* they were.
C2_DiscoveryKeepsProgress ==
    [][\A r \in Rows, p \in Paths :
          (/\ folders[r][p] # NoRow
           /\ folders[r][p].status \in {"running", "done"}
           /\ hist.disc[r][p] = -1
           /\ hist'.disc[r][p] = folders[r][p].totalMessages)
          => /\ folders'[r][p] # NoRow
             /\ folders'[r][p].movedMessages = folders[r][p].movedMessages
             /\ folders'[r][p].lastProcessedUid = folders[r][p].lastProcessedUid]_vars

\* C3: during a run no write lowers the stored cursor of a folder.
C3_CursorNeverDecreases ==
    [][\A r \in Rows, p \in Paths :
          (pc # "idle" /\ folders[r][p] # NoRow /\ folders'[r][p] # NoRow)
          => folders'[r][p].lastProcessedUid >= folders[r][p].lastProcessedUid]_vars

\* C4: every folder row has movedMessages <= totalMessages.
C4_MovedAtMostTotal ==
    \A rp \in FolderKeys :
        folders[rp[1]][rp[2]].movedMessages <= folders[rp[1]][rp[2]].totalMessages

\* C5: when a run has ended and the only account-level exceptions were
\* source connects that raised, the rows whose connect raised are failed,
\* every other row is done, and the job is done with errorCount equal to
\* the number of rows whose connect raised.
C5_AccountFailuresIsolated ==
    (/\ RunEnded
     /\ ~hist.driverFault
     /\ \A r \in AccountRows : hist.acctErr[r] \in {"none", "connect"})
    => /\ \A r \in ConnectFailed : accounts[r].status = "failed"
       /\ \A r \in AccountRows \ ConnectFailed : accounts[r].status = "done"
       /\ job.status = "done"
       /\ job.errorCount = Cardinality(ConnectFailed)

\* C5 happens: two accounts, the first one's connect raised, the second is done.
C5_Witness ==
    /\ RunEnded
    /\ ~hist.driverFault
    /\ hist.acctErr[0] = "connect"
    /\ accounts[1] # NoRow
    /\ hist.acctErr[1] = "none"
    /\ accounts[1].status = "done"
    /\ job.errorCount = 1

\* C6: a run whose driver met no store exception ends with job status done,
\* whatever the accounts did; while a run is going the status is running;
\* status failed after a run means a store operation of the driver raised
\* and runJob raised to its caller.
C6_JobDoneUnlessDriverFails ==
    /\ (pc # "idle") => job.status = "running"
    /\ RunEnded =>
          /\ ~hist.driverFault => (job.status = "done" /\ hist.result = "ok")
          /\ job.status = "failed" => (hist.driverFault /\ hist.result = "raised")

\* C6 happens: the run ended done although every account failed.
C6_Witness ==
    /\ RunEnded
    /\ job.status = "done"
    /\ Cardinality(AccountRows) = 2
    /\ \A r \in AccountRows : accounts[r].status = "failed"
    /\ job.errorCount = 2

\* C7: the job status changes only pending -> running, running -> done and
\* running -> failed.
C7_StatusTransitions ==
    [][job'.status # job.status =>
          <<job.status, job'.status>> \in
              {<<"pending", "running">>, <<"running", "done">>,
               <<"running", "failed">>}]_vars

\* C8: after a dry-run job has completed, every account row and folder row
\* has movedMessages = 0, a folder's totalMessages is the count discovered
\* for it, and a done account's totalMessages is the sum of the counts
\* discovered for its folders.
C8_DryRunCounts ==
    (mode = "dryrun" /\ RunEnded /\ hist.result = "ok" /\ job.status = "done")
    => /\ \A r \in AccountRows :
             /\ accounts[r].movedMessages = 0
             /\ accounts[r].status = "done"
                   => accounts[r].totalMessages = DiscoveredTotal(r)
       /\ \A rp \in FolderKeys :
             /\ folders[rp[1]][rp[2]].movedMessages = 0
             /\ hist.disc[rp[1]][rp[2]] # -1
                   => folders[rp[1]][rp[2]].totalMessages = hist.disc[rp[1]][rp[2]]

\* C8 happens: a completed dry run that counted three messages for row 0.
C8_Witness ==
    /\ mode = "dryrun"
    /\ RunEnded
    /\ hist.result = "ok"
    /\ job.status = "done"
    /\ accounts[0].status = "done"
    /\ accounts[0].totalMessages = 3
    /\ folders[0]["INBOX"] # NoRow
    /\ folders[0]["INBOX"].totalMessages = 2

\* C9: in dry-run mode no destination session is connected, no destination
\* folder is listed or ensured, and nothing is fetched or appended.
C9_DryRunTouchesNothing ==
    mode = "dryrun"
    => /\ hist.ops = {}
       /\ acc.newClient = "null"
       /\ pc \notin {"dstConnect", "dstSetup", "copy", "msg"}

\* C9 happens: a dry run has counted a non-empty folder and completed.
C9_Witness ==
    /\ mode = "dryrun"
    /\ RunEnded
    /\ job.status = "done"
    /\ hist.disc[0]["INBOX"] > 0

\* the batch scenario without any failure or delivery, in its first run
CleanBatchRun ==
    /\ hist.runs = 1
    /\ hist.faults = 0
    /\ hist.delivered = 0
    /\ hist.restarts = 0

\* C10: one account, one folder with the messages 1 .. N, batch size B, no
\* failure: the k-th fetch returns min(B, N - B(k-1)) messages, the loop
\* fetches ceil(N/B) times, the folder ends done with movedMessages = N and
\* the cursor on the last message, the account ends done with N moved, the
\* job ends done with N moved and no error.
C10_BatchScenario ==
    LET N == Cardinality(srcMail[0]["INBOX"])
        B == accounts[0].batch_size
    IN CleanBatchRun =>
        /\ (pc \in {"copy", "msg"} /\ hist.fetchCount >= 1)
              => hist.lastBatch = Min(B, N - B * (hist.fetchCount - 1))
        /\ pc = "idle" =>
              /\ hist.fetchCount = CeilDiv(N, B)
              /\ folders[0]["INBOX"] =
                    [totalMessages |-> N, movedMessages |-> N,
                     lastProcessedUid |-> N, status |-> "done"]
              /\ accounts[0].status = "done"
              /\ accounts[0].movedMessages = N
              /\ job.status = "done"
              /\ job.movedMessages = N
              /\ job.errorCount = 0

\* C10 happens: five messages in batches of two took three fetches.
C10_Witness ==
    /\ CleanBatchRun
    /\ pc = "idle"
    /\ Cardinality(srcMail[0]["INBOX"]) = 5
    /\ accounts[0].batch_size = 2
    /\ hist.fetchCount = 3
    /\ hist.lastBatch = 1
    /\ job.movedMessages = 5

\* the rows for which a destination connect raised in the last run
DstConnectFailed ==
    {r \in AccountRows : \E p \in Paths : hist.folderErr[r][p] = "dstConnect"}

\* C11: when a run has ended, every account whose source connect or whose
\* destination connect raised in that run has status failed and carries the
\* error message in lastError.
C11_ConnectFailureFailsAccount ==
    (RunEnded /\ hist.result = "ok")
    => \A r \in ConnectFailed \cup DstConnectFailed :
          /\ accounts[r].status = "failed"
          /\ accounts[r].lastError # "null"

\* C12: when a run has ended, every folder for which the count, the
\* destination setup or the copy loop raised in that run (and whose account
\* met no other exception) has a row with status failed, and its account is
\* done.
C12_FolderFailureRecorded ==
    (RunEnded /\ hist.result = "ok")
    => \A r \in AccountRows, p \in Paths :
          (hist.folderErr[r][p] # "none" /\ hist.acctErr[r] = "none")
          => /\ folders[r][p] # NoRow
             /\ folders[r][p].status = "failed"
             /\ accounts[r].status = "done"

\* C13: a message without a body or a rejected append leaves the folder row
\* as it was and the worker inside the copy loop with the message counted as
\* tried; when the loop ends without a folder exception the row is written
\* with status done and movedMessages = the number of appends that succeeded
\* in this loop, and (no message having arrived meanwhile) every message of
\* the folder from the first fetched identifier on has been tried.
C13_MessageFailureSkipsOnly ==
    [][LET r == CurRow
           p == CurPath
       IN /\ (pc = "msg" /\ hist'.faults > hist.faults)
                => /\ pc' \in {"msg", "copy"}
                   /\ folders' = folders
                   /\ hist'.tried = hist.tried \cup {Head(cp.batch)}
                   /\ cp'.batch = Tail(cp.batch)
          /\ (pc = "copy" /\ pc' = "folder" /\ hist'.folderErr[r][p] = "none")
                => /\ folders'[r][p].status = "done"
                   /\ folders'[r][p].movedMessages = hist.appended
                   /\ hist.delivered = 0
                         => {u \in srcMail[r][p] : u >= hist.firstFetchFrom}
                               \subseteq hist.tried]_vars

\* C13 happens: a folder with two messages is done with one of them moved,
\* the other one having failed, and both were tried.
C13_Witness ==
    /\ pc = "folder"
    /\ hist.delivered = 0
    /\ \E r \in AccountRows :
          /\ folders[r]["INBOX"] # NoRow
          /\ hist.folderErr[r]["INBOX"] = "none"
          /\ folders[r]["INBOX"].status = "done"
          /\ folders[r]["INBOX"].totalMessages = 2
          /\ folders[r]["INBOX"].movedMessages = 1
          /\ hist.tried = {1, 2}

\* C14: when processAccount is entered for a row whose credential is not in
\* the map, that step opens no session, leaves the account failed with the
\* message in lastError, publishes an error log, counts one error and has
\* the driver at the next account.
C14_MissingCredentialFailsAccount ==
    [][LET r == CurRow
       IN (/\ pc = "account"
           /\ drv.i < NumAccounts
           /\ r \notin passwordStore
           /\ pc' # "idle")
          => /\ pc' = "account"
             /\ drv'.i = drv.i + 1
             /\ drv'.errorCount = drv.errorCount + 1
             /\ accounts'[r].status = "failed"
             /\ accounts'[r].lastError = "password"
             /\ acc'.oldClient = "null"
             /\ acc'.newClient = "null"
             /\ hist'.ops = hist.ops
             /\ hist'.errLogs[r] > hist.errLogs[r]]_vars

\* C14 happens: after the process came up again without credentials, the
\* first of two accounts failed for its missing credential and the driver
\* is at the second.
C14_Witness ==
    /\ pc = "account"
    /\ drv.i = 1
    /\ drv.errorCount = 1
    /\ NumAccounts = 2
    /\ passwordStore = {}
    /\ hist.acctErr[0] = "password"
    /\ accounts[0].status = "failed"
    /\ hist.errLogs[0] > 0

\* C15: after the process was terminated in the middle of a run, a start
\* request for the job is accepted (so that the run can go on from the
\* stored cursors).
C15_StartAcceptedAfterTermination ==
    (pc = "idle" /\ hist.restarts > 0 /\ hist.result = "killed")
    => ~StartRefused(job)

\* C16: a step taken while the stored status is running starts no run, and
\* at most one execution of runJob is alive at any time.
C16_OneDriverAtATime ==
    [][/\ job.status = "running" => hist'.runs = hist.runs
       /\ hist'.active <= 1]_vars

\* C16 happens: a driver is alive in the copy loop, where a start request
\* can arrive, and the job is stored as running.
C16_Witness ==
    /\ hist.active = 1
    /\ pc = "msg"
    /\ job.status = "running"
    /\ ENABLED StartRequest


(* ------------------------------- C17 ------------------------------------ *)

\* the two uploads agree on everything but the two password cells
DifferOnlyInPasswords ==
    /\ upload.a.old_email = upload.b.old_email
    /\ upload.a.batch_size = upload.b.batch_size

\* both uploads passed the route's validation, so both jobs were created
BothCreated == RowErrors(upload.a) = {} /\ RowErrors(upload.b) = {}

\* C17: two job creations that differ only in the source or destination
\* password write identical account rows, and after runs against the same
\* transport outcome their account and folder rows are still identical: no
\* stored value depends on a credential.
C17_NoCredentialInStore ==
    (upload.phase \in {"created", "ran"} /\ DifferOnlyInPasswords /\ BothCreated)
    => /\ upload.outA.db = upload.outB.db
       /\ upload.outA.db # NoRow
       /\ upload.phase = "ran"
          => /\ upload.accountA = upload.accountB
             /\ upload.folderA = upload.folderB

\* two created jobs with different source and destination passwords have run
\* up to a destination failure, and the in-memory entries do differ
C17_Witness ==
    /\ upload.phase = "ran"
    /\ DifferOnlyInPasswords /\ BothCreated
    /\ upload.a.old_password # upload.b.old_password
    /\ upload.a.new_password # upload.b.new_password
    /\ upload.outA.mem # upload.outB.mem
    /\ upload.o = "dstConnect"
    /\ upload.folderA.status = "failed"
    /\ upload.accountA.status = "done"


(* ------------------------------- C18 ------------------------------------ *)

StatusFields == {"status", "total", "moved"}

Unset(f, v) == IF f = "status" THEN v = "-" ELSE v = -1

\* the positions before i of a step where a write of the key sets field f
WritesOf(t, i, key, f) ==
    {j \in 1 .. (i - 1) :
        t[j].op = "write" /\ t[j].key = key /\ ~Unset(f, t[j][f])}

\* between the event at position i and the previous event of the same key
\* (or the beginning of the step) there is a write of that key
FreshWriteBefore(t, i) ==
    \E j \in 1 .. (i - 1) :
       /\ t[j].op = "write" /\ t[j].key = t[i].key
       /\ \A k \in (j + 1) .. (i - 1) :
             ~(t[k].op = "publish" /\ t[k].key = t[i].key)

\* the event at position i shows, field by field, what the last write
\* before it stored
ShowsWhatWasWritten(t, i) ==
    \A f \in StatusFields :
       LET W == WritesOf(t, i, t[i].key, f)
       IN \/ Unset(f, t[i][f])
          \/ W = {}
          \/ t[i][f] = t[CHOOSE j \in W : \A k \in W : k <= j][f]

\* the row of a key in the store
StoredRow(key) ==
    IF key.kind = "job" THEN job
    ELSE IF key.kind = "account" THEN accounts[key.r]
    ELSE folders[key.r][key.p]

StoredField(key, f) ==
    LET row == StoredRow(key)
    IN IF f = "status" THEN row.status
       ELSE IF f = "total" THEN row.totalMessages ELSE row.movedMessages

\* what the writes of the step stored is what the store holds after the
\* step: every written field that no later write of the step overwrites
WritesCommitted ==
    LET t == hist.step
    IN \A i \in 1 .. Len(t), f \in StatusFields :
          \/ t[i].op # "write"
          \/ Unset(f, t[i][f])
          \/ \E j \in (i + 1) .. Len(t) :
                t[j].op = "write" /\ t[j].key = t[i].key /\ ~Unset(f, t[j][f])
          \/ StoredField(t[i].key, f) = t[i][f]

\* C18: within every step of the engine each status event of a key comes
\* after a write of that key that no earlier event has announced, and
\* shows what the writes up to that point stored; the writes are the ones
\* the store holds when the step ends.  As one driver runs the steps one
\* after the other and the bus delivers synchronously, an observer gets the
\* snapshots of a key in the order the writes were committed.
C18_EventsFollowWrites ==
    [][hist'.step # hist.step
       => /\ \A i \in 1 .. Len(hist'.step) :
                hist'.step[i].op = "publish"
                => /\ FreshWriteBefore(hist'.step, i)
                   /\ ShowsWhatWasWritten(hist'.step, i)
          /\ WritesCommitted']_vars

\* a message of the second account's INBOX has just been copied: the folder
\* event and the account event were published, each after its write
C18_Witness ==
    /\ pc \in {"msg", "copy"}
    /\ drv.i = 1
    /\ Len(hist.step) = 4
    /\ hist.step[2] = Publish(FolderKey(1, "INBOX"), "-", 2, 1)
    /\ hist.step[4] = Publish(AccountKey(1), "running", 2, 1)
    /\ folders[1]["INBOX"].movedMessages = 1
    /\ accounts[1].movedMessages = 1


(* ------------------------------- C19 ------------------------------------ *)

RECURSIVE ExpectedFrom(_, _, _, _)
\* the messages a callback is to get from position i of the call history
\* on, when it is subscribed to the jobs in `subscribed` at that position
ExpectedFrom(log, i, subscribed, cb) ==
    IF i > Len(log) THEN << >>
    ELSE LET e == log[i]
         IN IF e.op = "subscribe" /\ e.cb = cb
            THEN ExpectedFrom(log, i + 1, subscribed \cup {e.jobId}, cb)
            ELSE IF e.op = "unsubscribe" /\ e.cb = cb
            THEN ExpectedFrom(log, i + 1, subscribed \ {e.jobId}, cb)
            ELSE IF e.op = "publish" /\ e.jobId \in subscribed
            THEN << BusMessage("log", i) >>
                 \o ExpectedFrom(log, i + 1, subscribed, cb)
            ELSE ExpectedFrom(log, i + 1, subscribed, cb)

\* C19: what a callback has received is, in order and once each, exactly
\* the events published for a job while the callback was subscribed to that
\* job: nothing published before its subscribe, nothing published after its
\* unsubscribe, nothing published for a job it is not subscribed to.
C19_ExactlyOwnEventsWhileSubscribed ==
    bus.phase = "on"
    => \A cb \in Callbacks : bus.got[cb] = ExpectedFrom(bus.log, 1, {}, cb)

\* events for j1 were published before c1 subscribed, while it was
\* subscribed (together with one for j2) and after it unsubscribed: c1 has
\* the one published for j1 while it was subscribed, and nothing else
C19_Witness ==
    /\ bus.phase = "on"
    /\ Len(bus.log) = 6
    /\ bus.log[1] = [op |-> "publish", jobId |-> "j1", cb |-> "-"]
    /\ bus.log[2] = [op |-> "subscribe", jobId |-> "j1", cb |-> "c1"]
    /\ bus.log[3] = [op |-> "publish", jobId |-> "j2", cb |-> "-"]
    /\ bus.log[4] = [op |-> "publish", jobId |-> "j1", cb |-> "-"]
    /\ bus.log[5] = [op |-> "unsubscribe", jobId |-> "j1", cb |-> "c1"]
    /\ bus.log[6] = [op |-> "publish", jobId |-> "j1", cb |-> "-"]
    /\ bus.got["c1"] = << BusMessage("log", 4) >>
    /\ bus.got["c2"] = << >>


(* ------------------------------- C20 ------------------------------------ *)

\* a backslash followed by one or more letters
IsSystemToken(t) ==
    /\ Len(t) >= 2
    /\ t[1] = "\\"
    /\ \A i \in 2 .. Len(t) : t[i] \in Letters

\* a non-empty string of letters, digits, dash and underscore
IsCustomToken(t) ==
    /\ Len(t) >= 1
    /\ \A i \in 1 .. Len(t) : t[i] \in Letters \cup Digits \cup {"-", "_"}

IsWellFormedToken(t) == IsSystemToken(t) \/ IsCustomToken(t)

\* the flags handed on to the append; none when validFlags is undefined
KeptFlags ==
    IF flagRun.validFlags.defined THEN flagRun.validFlags.flags ELSE << >>

\* C20: the filter keeps, in their original order, exactly the tokens that
\* are a backslash followed by one or more letters or a non-empty string of
\* letters, digits, dash and underscore, and drops every other token.
C20_FlagsSanitized ==
    flagRun.phase = "filtered"
    => KeptFlags = SelectSeq(flagRun.flags, IsWellFormedToken)

\* a message flagged \S, # and 1: the system flag and the custom flag are
\* kept in that order, the token with the other character is dropped
C20_Witness ==
    /\ flagRun.phase = "filtered"
    /\ flagRun.flags = << <<"\\", "S">>, <<"#">>, <<"1">> >>
    /\ flagRun.validFlags = [defined |-> TRUE,
                             flags |-> << <<"\\", "S">>, <<"1">> >>]


(* ------------------------------- C21 ------------------------------------ *)

\* C21: when the sanitized flag set of a message is empty (no flags, or
\* only malformed tokens) the append that reaches the protocol library
\* carries no flag list at all, not an explicit empty list.
C21_EmptyFlagsNotSent ==
    (flagRun.phase = "filtered" /\ ~flagRun.validFlags.defined)
    => ~flagRun.append.hasFlagList

(* ------------------------------- C22 ------------------------------------ *)

\* the mailboxes the destination listed, as a set
ListedMailboxes ==
    {mapRun.newMailboxes[i] : i \in 1 .. Len(mapRun.newMailboxes)}

\* the standard folder a path is a name of, if any
AliasRole(path) ==
    IF ToLowerCase(path) \in {<<"spam">>, <<"junk">>} THEN "spam" ELSE "none"

ListedIgnoringCase ==
    {mb \in ListedMailboxes : ToLowerCase(mb) = ToLowerCase(mapRun.folderPath)}

ListedWithSameRole ==
    {mb \in ListedMailboxes :
        /\ AliasRole(mapRun.folderPath) # "none"
        /\ AliasRole(mb) = AliasRole(mapRun.folderPath)}

\* C22: the reconciler returns the source path itself when the destination
\* lists it; otherwise a listed mailbox equal to it ignoring case, when there
\* is one; otherwise a listed mailbox with the same alias role, when there is
\* one.  A later rule is used only when every earlier rule finds nothing.
C22_RulePrecedence ==
    mapRun.phase = "mapped" =>
        IF mapRun.folderPath \in ListedMailboxes
        THEN mapRun.mappedPath = mapRun.folderPath
        ELSE IF ListedIgnoringCase # {}
             THEN mapRun.mappedPath \in ListedIgnoringCase
        ELSE IF ListedWithSameRole # {}
             THEN mapRun.mappedPath \in ListedWithSameRole
        ELSE TRUE


(* ------------------------------- C23 ------------------------------------ *)

\* no listed mailbox is the path, equals it ignoring case or has its alias
\* role
NothingMatches(path) ==
    \A mb \in ListedMailboxes :
        /\ ToLowerCase(mb) # ToLowerCase(path)
        /\ AliasRole(path) = "none" \/ AliasRole(mb) # AliasRole(path)

\* the path holds a hierarchy separator
IsNested(path) == \E i \in 1 .. Len(path) : path[i] \in MapSeparators

\* the part of a nested path above its first separator
ParentOf(path) ==
    SubSeq(path, 1,
           (CHOOSE i \in 1 .. Len(path) :
               /\ path[i] \in MapSeparators
               /\ \A j \in 1 .. (i - 1) : path[j] \notin MapSeparators) - 1)

\* C23: when no listed mailbox matches the source path under the exact,
\* case-insensitive and alias rules, nor its parent under the hierarchical
\* rule, the reconciler returns the source path unchanged, piece for piece,
\* also when the source path contains the hierarchy separator.
C23_FallbackUnchanged ==
    (/\ mapRun.phase = "mapped"
     /\ NothingMatches(mapRun.folderPath)
     /\ IsNested(mapRun.folderPath)
            => NothingMatches(ParentOf(mapRun.folderPath)))
    => mapRun.mappedPath = mapRun.folderPath


(* ------------------------------- C24 ------------------------------------ *)

\* the worker is inside the batch copy loop of a folder
InCopyLoop == pc \in {"copy", "msg"}

\* the identifiers a fetch from the cursor can still return, and the
\* deliveries the folder can still receive
StillToFetch ==
    Cardinality({u \in srcMail[CurRow][CurPath] : u >= cp.currentUid})
    + (MaxDeliver - hist.delivered)

\* C24: with a finite folder and a fetch that returns only identifiers at or
\* above the cursor, the batch copy loop terminates whatever messages are
\* skipped or rejected: what can still be fetched never grows inside the
\* loop, every batch that was gone through moves the cursor past its last
\* message and so shrinks it, a fetch that returns nothing ends the loop, and
\* a worker inside the loop gets out of it.
C24_CopyLoopTerminates ==
    /\ [][InCopyLoop /\ InCopyLoop'
            => /\ StillToFetch' <= StillToFetch
               /\ (pc = "copy" /\ pc' = "msg")
                     => GetMessages(CurRow, CurPath, cp.currentUid,
                                    accounts[CurRow].batch_size) # << >>
               /\ (pc = "msg" /\ pc' = "copy")
                     => /\ cp'.currentUid > Head(cp.batch)
                        /\ cp'.currentUid > cp.currentUid
                        /\ StillToFetch' < StillToFetch]_vars
    /\ []<>(~InCopyLoop)

\* the loop has ended on a folder of three messages, one delivered while
\* it ran, of which two failed: the cursor stands on the third
C24_Witness ==
    /\ ~InCopyLoop
    /\ hist.tried = 1 .. 3
    /\ hist.delivered = 1
    /\ hist.appended = 1
    /\ hist.faults = 2
    /\ folders[0]["INBOX"] # NoRow
    /\ folders[0]["INBOX"].status = "done"
    /\ folders[0]["INBOX"].lastProcessedUid = 3


(* ------------------------------- C25 ------------------------------------ *)

\* the step appends the message u of folder p of row r to the destination
AppendsMessage(r, p, u) ==
    /\ pc = "msg"
    /\ r = CurRow
    /\ p = CurPath
    /\ u = Head(cp.batch)
    /\ hist'.appended = hist.appended + 1

\* C25: a non-zero persisted cursor of a folder is the identifier of a
\* message that was appended to the destination, the highest one copied so
\* far, and never that of a message that was skipped or whose append
\* failed.  Over the first run of a job, where every cursor starts at zero
\* and identifiers are copied in increasing order: the cursor of a folder
\* moves to a non-zero identifier only in the step that appends the message
\* with that identifier.
C25_CursorNamesCopiedMessage ==
    [][(hist.runs = 1 /\ hist'.runs = 1)
          => \A r \in Rows, p \in Paths :
                LET new == LastProcessedUid(folders', r, p)
                IN  (new # 0 /\ new # LastProcessedUid(folders, r, p))
                       => AppendsMessage(r, p, new)]_vars


(* ------------------------------- C26 ------------------------------------ *)

\* the accounts whose stored status is running
RunningRows == {r \in AccountRows : accounts[r].status = "running"}

\* processAccount is executing (for the row CurRow)
InFlight == pc \notin {"off", "idle", "account"}

C27_CurrentRowIndexIdentifiesAccount ==
    InFlight => job.currentRowIndex = CurRow

\* the second account is being processed and the job row says so
C27_Witness ==
    /\ InFlight
    /\ CurRow = 1
    /\ job.currentRowIndex = 1
    /\ accounts[1].status = "running"


(* ------------------------------- C28 ------------------------------------ *)

\* the step is the driver at an account boundary storing its snapshot:
\* before an account starts, or after the last one has finished
StoresJobSnapshot == pc = "account" /\ ~hist'.driverFault

\* the step publishes a job-status event that carries the stored snapshot
PublishesJobSnapshot ==
    \E i \in DOMAIN hist'.step :
        /\ hist'.step[i].op = "publish"
        /\ hist'.step[i].key = JobKey
        /\ hist'.step[i].total = job'.totalMessages
        /\ hist'.step[i].moved = job'.movedMessages

\* C28: at every account boundary (before each account starts and after
\* the last one finishes) the driver stores the job progress snapshot and
\* publishes a job-status event carrying it.
C28_SnapshotStoredAndPublished ==
    [][StoresJobSnapshot
          => /\ job'.totalMessages = drv.totalMessages
             /\ job'.movedMessages = drv.movedMessages
             /\ job'.errorCount = drv.errorCount
             /\ job'.currentRowIndex = drv.i
             /\ PublishesJobSnapshot]_vars


(* ------------------------------- C29 ------------------------------------ *)

\* C29: within one execution of processAccount in migrate mode the
\* destination is connected only when a folder has been counted and
\* recorded and is about to be copied, and only while no destination
\* session is held; a destination session is held only in migrate mode and
\* never before the folder loop; and once a destination connect has
\* succeeded the session is kept for the rest of the account, so that no
\* later folder connects again.
C29_OneDestinationSession ==
    /\ [](/\ pc = "dstConnect"
                => /\ mode = "migrate"
                   /\ acc.newClient = "null"
                   /\ hist.disc[CurRow][CurPath] # -1
          /\ acc.newClient = "open"
                => /\ mode = "migrate"
                   /\ pc \in {"folder", "dstSetup", "copy", "msg"})
    /\ [][(acc.newClient = "open" /\ InFlight')
             => (acc'.newClient = "open" /\ pc' # "dstConnect")]_vars

\* the second folder of an account is set up on the session that was
\* connected for the first
C29_Witness ==
    /\ pc = "dstSetup"
    /\ CurPath = "Sent"
    /\ acc.newClient = "open"
    /\ folders[CurRow]["INBOX"] # NoRow
    /\ folders[CurRow]["INBOX"].status = "done"
    /\ folders[CurRow]["INBOX"].movedMessages > 0


(* ------------------------------- C30 ------------------------------------ *)

\* C30: when processAccount has ended, every session it opened has been
\* disconnected in its finally block, and a disconnect that raised has
\* changed neither the account row (status, counters, lastError) nor the
\* outcome: processAccount returns when its try block completed and raises
\* when an exception reached its catch block.
C30_SessionsDisconnected ==
    sess.phase = "ended"
    => /\ sess.opened \subseteq sess.disconnects
       /\ sess.row = sess.rowAtFinally
       /\ sess.outcome = sess.pending
       /\ sess.outcome = "returned" <=> sess.row.status = "done"
       /\ sess.outcome = "raised" <=> sess.row.status = "failed"

\* both sessions were opened, the account completed, both disconnects
\* raised: the account is done and processAccount returned
C30_Witness ==
    /\ sess.phase = "ended"
    /\ sess.opened = {"old", "new"}
    /\ sess.logoutErrors = {"old", "new"}
    /\ sess.outcome = "returned"
    /\ sess.row.status = "done"
    /\ sess.row.movedMessages = MaxSessionFolders

(* --------------------------------- C31 --------------------------------- *)

\* processAccount has just returned for row r: every mailbox of the listing
\* was gone through and no exception left the function
ReturnedFrom(r) ==
    /\ pc = "account"
    /\ drv.i = r + 1
    /\ hist.acctErr[r] \in {"none", "reload"}

\* the last store write or event of the latest publishing step
LastOfStep == hist.step[Len(hist.step)]

\* C31: when processAccount has gone through all folders without an
\* account-level exception, the account row has status done, totalMessages
\* = the sum of the discovered folder counts, movedMessages = that total in
\* migrate mode and 0 in dry-run mode, and the last event published is an
\* account-status event with these values.
C31_FinalAccountTotals ==
    \A r \in AccountRows :
        ReturnedFrom(r)
        => LET total == DiscoveredTotal(r)
               moved == IF mode = "migrate" THEN total ELSE 0
           IN /\ accounts[r].status = "done"
              /\ accounts[r].totalMessages = total
              /\ accounts[r].movedMessages = moved
              /\ hist.step # <<>>
              /\ LastOfStep = Publish(AccountKey(r), "done", total, moved)

\* C31 happens: a dry run has just returned from row 0 having counted three
\* messages in two folders.
C31_Witness ==
    /\ mode = "dryrun"
    /\ ReturnedFrom(0)
    /\ hist.disc[0]["INBOX"] = 2
    /\ DiscoveredTotal(0) = 3
    /\ accounts[0].movedMessages = 0

(* --------------------------------- C32 --------------------------------- *)

\* the sum of movedMessages over the folder rows of row r in store f
SumOfFolderMoved(f, r) ==
    SumOver({p \in Paths : f[r][p] # NoRow},
            [p \in Paths |-> IF f[r][p] = NoRow THEN 0 ELSE f[r][p].movedMessages])

\* a step in which a message is appended to the destination
AppendSucceeds == hist'.appended = hist.appended + 1

\* C32: right after every successfully appended message the account's
\* stored movedMessages is the sum of movedMessages over all folder rows of
\* the account, and an account-status event carrying that value is
\* published after the folder-status event about the same message.
C32_AccountMovedIsFolderSum ==
    [][AppendSucceeds =>
          LET r == CurRow
              p == CurPath
              t == hist'.step
          IN /\ accounts'[r].movedMessages = SumOfFolderMoved(folders', r)
             /\ \E i, j \in DOMAIN t :
                   /\ i < j
                   /\ t[i].op = "publish"
                   /\ t[i].key = FolderKey(r, p)
                   /\ t[i].moved = folders'[r][p].movedMessages
                   /\ t[j].op = "publish"
                   /\ t[j].key = AccountKey(r)
                   /\ t[j].moved = SumOfFolderMoved(folders', r)]_vars

\* C32 happens: a message of the second folder has been appended after a
\* message of the first folder, and the account row counts both.
C32_Witness ==
    /\ pc \in {"copy", "msg"}
    /\ CurPath = "Sent"
    /\ hist.appended = 1
    /\ folders[CurRow]["INBOX"] # NoRow
    /\ folders[CurRow]["INBOX"].movedMessages = 1
    /\ folders[CurRow]["Sent"].movedMessages = 1
    /\ accounts[CurRow].movedMessages = 2

(* --------------------------------- C33 --------------------------------- *)

\* a step in which a fetched message is gone through without being
\* appended (its body is missing, or its append raises)
MessageNotAppended ==
    /\ pc = "msg"
    /\ hist'.tried # hist.tried
    /\ hist'.appended = hist.appended

\* a step in which a batch is fetched from the source folder
FetchesBatch == pc = "copy" /\ pc' = "msg"

\* C33: a fetched message without a retrievable body is not appended, adds
\* nothing to processed nor to the folder's movedMessages, and is not
\* fetched again in the same run of the folder: the cursor moves past the
\* last fetched identifier, so no later batch holds a message that was
\* already gone through.
C33_SkippedMessageNotRetried ==
    [][/\ MessageNotAppended
          => /\ cp'.processed = cp.processed
             /\ folders' = folders
             /\ accounts' = accounts
             /\ pc' = "copy" => cp'.currentUid > Head(cp.batch)
       /\ FetchesBatch
          => \A i \in DOMAIN cp'.batch : cp'.batch[i] \notin hist.tried]_vars

\* C33 happens: message 1 was skipped, and the next batch of the same folder
\* run starts with message 2.
C33_Witness ==
    /\ pc = "msg"
    /\ hist.fetchCount = 2
    /\ hist.tried = {1}
    /\ hist.appended = 0
    /\ cp.processed = 0
    /\ cp.batch = <<2>>
    /\ folders[CurRow][CurPath].movedMessages = 0

(* --------------------------------- C34 --------------------------------- *)

\* a store write lowers one of the job's counters
JobCounterDecreases ==
    \/ job'.totalMessages < job.totalMessages
    \/ job'.movedMessages < job.movedMessages
    \/ job'.errorCount < job.errorCount

\* the first progress write of an execution of runJob: the snapshot stored
\* before the first account
FirstProgressWrite == pc = "account" /\ drv.i = 0

\* C34: during one execution of runJob the job's stored totalMessages,
\* movedMessages and errorCount never decrease from one store write to the
\* next; they are only reset, to 0, by the first progress write of a new
\* run.
C34_JobCountersMonotone ==
    [][JobCounterDecreases
          => /\ FirstProgressWrite
             /\ hist.runs > 1
             /\ job'.totalMessages = 0
             /\ job'.movedMessages = 0
             /\ job'.errorCount = 0]_vars

\* C34 happens: the snapshot stored before the second account holds the
\* totals of the first account and one error is stored at the end.
C34_Witness ==
    /\ pc = "idle"
    /\ hist.result = "ok"
    /\ job.totalMessages > 0
    /\ job.errorCount = 1
    /\ job.currentRowIndex = 2
    /\ hist.acctErr[1] # "none"
    /\ hist.acctErr[0] = "none"

(* --------------------------------- C35 --------------------------------- *)

\* processAccount is inside its folder loop for the current row
InFolderLoop == pc \in {"folder", "dstConnect", "dstSetup", "copy", "msg"}

\* movedMessages of the account-status events about row r in trace t
AccountEventsMoved(t, r) ==
    {t[i].moved : i \in {k \in DOMAIN t :
                            t[k].op = "publish" /\ t[k].key = AccountKey(r)}}

\* C35: while processAccount goes through the folders of an account in
\* migrate mode without failing, the account's stored movedMessages, and
\* the movedMessages of successive account-status events, never decrease;
\* in particular not when a further folder is discovered after an earlier
\* folder has been copied.
C35_AccountMovedNeverDrops ==
    [][(mode = "migrate" /\ InFolderLoop /\ accounts'[CurRow].status # "failed")
          => /\ accounts'[CurRow].movedMessages >= accounts[CurRow].movedMessages
             /\ \A old \in AccountEventsMoved(hist.step, CurRow),
                   new \in AccountEventsMoved(hist'.step, CurRow) :
                   hist'.step # hist.step => new >= old]_vars

(* --------------------------------- C36 --------------------------------- *)

\* C36: in every reachable state of the store, also while a job that
\* already ran is run a second time, every account row has movedMessages <=
\* totalMessages (checked here for source folders that receive no message
\* while they are copied).
C36_AccountMovedAtMostTotal ==
    hist.delivered = 0
    => \A r \in AccountRows :
          accounts[r].movedMessages <= accounts[r].totalMessages

(* --------------------------------- C37 --------------------------------- *)

\* C37: when an account has ended with status done in migrate mode, its
\* stored movedMessages is the sum of movedMessages of its folder rows, so
\* that skipped messages, failed appends and failed folders are not
\* reported as moved (checked here for source folders that receive no
\* message while they are copied).
C37_DoneAccountMovedIsFolderSum ==
    \A r \in AccountRows :
        (mode = "migrate" /\ hist.delivered = 0 /\ ReturnedFrom(r)
            /\ accounts[r].status = "done")
        => accounts[r].movedMessages = SumOfFolderMoved(folders, r)

(* --------------------------------- C38 --------------------------------- *)

\* the sums of the counters of the account rows of the job
SumOfAccountTotals ==
    SumOver(AccountRows, [r \in Rows |->
        IF accounts[r] = NoRow THEN 0 ELSE accounts[r].totalMessages])
SumOfAccountMoved ==
    SumOver(AccountRows, [r \in Rows |->
        IF accounts[r] = NoRow THEN 0 ELSE accounts[r].movedMessages])

\* runJob has returned after storing status done and the final snapshot
JobCompleted == RunEnded /\ hist.result = "ok" /\ job.status = "done"

\* the job row agrees with its account rows
JobAgreesWithAccounts ==
    /\ job.totalMessages = SumOfAccountTotals
    /\ job.movedMessages = SumOfAccountMoved
    /\ job.currentRowIndex = NumAccounts

ReloadRaised == \E r \in AccountRows : hist.acctErr[r] = "reload"

Members(s) == {s[i] : i \in DOMAIN s}

\* C39: when a subscriber callback raises while an event is published,
\* every other subscriber of the same job is still called with the event
\* and no exception leaves publish, so no message, folder, account or job
\* of the publishing worker fails because of an observer.
C39_FailingObserverIsolated ==
    (bus.phase = "observed" /\ bus.published > 0)
    => /\ Members(bus.last.subscribed) \ bus.last.raisers
             \subseteq Members(bus.last.called)
       /\ Members(bus.last.called) \subseteq Members(bus.last.subscribed)
       /\ ~bus.last.thrown
       /\ bus.last.logged
             = Cardinality(Members(bus.last.subscribed) \cap bus.last.raisers)
       /\ bus.failed = {}

\* C39 happens: the first of two subscribers of a job raised, and the
\* second one was still called.
C39_Witness ==
    /\ bus.phase = "observed"
    /\ bus.published > 0
    /\ Len(bus.last.subscribed) = 2
    /\ bus.last.raisers = {bus.last.subscribed[1]}
    /\ bus.last.subscribed[2] \in Members(bus.last.called)
    /\ bus.last.logged = 1

(* --------------------------------- C40 --------------------------------- *)

\* the listed mailboxes that differ from a path in letter case only
CaseVariantsListed(path) ==
    {mb \in ListedMailboxes : mb # path /\ ToLowerCase(mb) = ToLowerCase(path)}

\* C40: for every source path and every destination list, the reconciler
\* returns either a listed mailbox or a path that no listed mailbox equals
\* ignoring case: it never yields a new path that differs from an existing
\* destination folder in letter case only.
C40_NoCaseOnlyVariant ==
    mapRun.phase = "mapped"
    => \/ mapRun.mappedPath \in ListedMailboxes
       \/ CaseVariantsListed(mapRun.mappedPath) = {}

============================================================================
